---------------------------- MODULE Spec2Model ----------------------------
(***************************************************************************)
(* RKnowledge: the graph assembly layer (src/graph/builder.rs), the batch  *)
(* and adaptive processors and the document selector                       *)
(* (src/llm/batch_processor.rs, src/llm/adaptive_processor.rs), the reply  *)
(* parser (src/llm/parsing.rs), community detection                        *)
(* (src/graph/community.rs), shortest_path and pagerank                    *)
(* (src/graph/analytics.rs), the chunkers and the model-context lookup     *)
(* (src/parser/chunker.rs, src/parser/adaptive_chunker.rs) and the         *)
(* rebuild of the graph from the store (src/cli/commands) as state         *)
(* machines.                                                               *)
(*                                                                         *)
(* Strings whose characters the code inspects (node names, entity types,   *)
(* relation phrases, error messages) are sequences of one-character        *)
(* strings, so that to_lowercase, trim, `<` and `contains` are computed.   *)
(* Strings the code only compares for equality (chunk ids, sources) are    *)
(* TLA+ strings.  Option<T> is <<>> for None and <<v>> for Some(v).        *)
(***************************************************************************)
EXTENDS Integers, Sequences, FiniteSets, TLC

VARIABLES
    builder,          \* the GraphBuilder under construction
    proximity_calls,  \* calculate_contextual_proximity calls made on builder
    other,            \* a second GraphBuilder, fed the same relations
    calls,            \* the add_relations calls to apply, in document order
    applied,          \* the relations of calls applied to builder so far
    applied_other,    \* the relations of calls applied to other so far
    pc,               \* where process_documents stands
    clock,            \* runs of the build command started so far
    progress_file,    \* .rknowledge_progress.json on disk, None if absent
    processed_hashes, \* BatchProcessor.processed_hashes: source -> ProcessedDoc
    documents,        \* the (source, text) pairs given to process_documents
    doc_idx,          \* position of the `for (source, text)` loop
    chunks,           \* chunks of the document being processed
    batch_idx,        \* position of the `for (batch_idx, batch)` loop
    chunk_pos,        \* position of the fallback `for chunk in batch` loop
    doc_relations,    \* relations collected for the document being processed
    all_relations,    \* relations collected by process_documents
    processed_docs,   \* documents processed by this process_documents call
    llm_calls,        \* extract_relations calls issued by this run, in order
    ap_pc,            \* where AdaptiveProcessor::process stands
    concurrency,      \* AdaptiveProcessor.concurrency
    semaphore,        \* permits available in the semaphore of process
    process_chunks,   \* estimated_tokens of the chunks process works on
    tasks,            \* the tasks process has spawned, one per chunk
    process_result,   \* what process returned, None until it returns
    response,         \* the reply of the LLM handed to the parsing functions
    json_str,         \* what extract_json_array made of the response
    json_again,       \* what extract_json_array made of its own output
    parsed,           \* what parse_relations_json made of the response
    graph,            \* the DiGraph<String, f64> returned by build()
    communities,      \* what label_propagation returned for the graph
    query,            \* the labels given to shortest_path
    path_result,      \* what shortest_path returned for the query
    rank_scores,      \* the scores map of pagerank
    rank_iterations,  \* the power iterations pagerank has done
    model,            \* the model name given to get_context_size
    context_size,     \* what get_context_size returned
    chunker,          \* the TextChunker in use, once created
    adaptive_chunker, \* the AdaptiveChunker in use, once created
    input_text,       \* the text handed to a chunker
    text_chunks,      \* what TextChunker::split returned
    adaptive_chunks,  \* what AdaptiveChunker::split returned
    all_docs,         \* the documents given to select_representative_docs
    max_per_dir,      \* its cap of documents per directory
    selected,         \* the documents it returned
    store,            \* the edges fetched from the graph store
    reweighted        \* the same edges with other stored weights

builderVars == <<builder, proximity_calls>>
orderVars == <<other, calls, applied, applied_other>>
batchVars ==
    <<pc, clock, progress_file, processed_hashes, documents, doc_idx, chunks,
      batch_idx, chunk_pos, doc_relations, all_relations, processed_docs,
      llm_calls>>
adaptiveVars ==
    <<ap_pc, concurrency, semaphore, process_chunks, tasks, process_result>>
parseVars == <<response, json_str, json_again, parsed>>
graphVars == <<graph, communities, query, path_result>>
rankVars == <<rank_scores, rank_iterations>>
chunkerVars ==
    <<model, context_size, chunker, adaptive_chunker, input_text, text_chunks,
      adaptive_chunks>>
selectorVars == <<all_docs, max_per_dir, selected>>
storeVars == <<store, reweighted>>
moreVars == <<rankVars, chunkerVars, selectorVars, storeVars>>
analysisVars == <<parseVars, graphVars, moreVars>>
vars == <<builderVars, orderVars, batchVars,
                     adaptiveVars, analysisVars>>

---------------------------------------------------------------------------
(* Characters and strings *)

\* The characters of the model in increasing code-point order.
Alphabet ==
    <<"\t", "\n", " ", "!", ",", "-", ".", "/",
      "0", "1", "2", "3", "4", "5", "6", "7", "8", "9", ":", ";", "?",
      "A", "B", "C", "G", "P", "T", "U",
      "a", "b", "c", "d", "e", "f", "g", "h", "i", "j", "k", "l", "m", "n",
      "o", "p", "q", "r", "s", "t", "u", "v", "w", "x", "y", "z">>

Characters == {Alphabet[i] : i \in 1..Len(Alphabet)}

CodePointOf ==
    [ch \in Characters |-> CHOOSE i \in 1..Len(Alphabet) : Alphabet[i] = ch]

CodePoint(ch) == CodePointOf[ch]

UpperCase == <<"A", "B", "C", "G", "P", "T", "U">>
LowerCase == <<"a", "b", "c", "g", "p", "t", "u">>

LowerCaseOf ==
    [ch \in Characters |->
        IF \E i \in 1..Len(UpperCase) : UpperCase[i] = ch
        THEN LowerCase[CHOOSE i \in 1..Len(UpperCase) : UpperCase[i] = ch]
        ELSE ch]

char_to_lowercase(ch) == LowerCaseOf[ch]

to_lowercase(s) == [i \in 1..Len(s) |-> char_to_lowercase(s[i])]

is_whitespace(ch) == ch \in {" ", "\t", "\n"}

RECURSIVE trim_start(_)
trim_start(s) ==
    IF s # <<>> /\ is_whitespace(Head(s)) THEN trim_start(Tail(s)) ELSE s

RECURSIVE trim_end(_)
trim_end(s) ==
    IF s # <<>> /\ is_whitespace(s[Len(s)])
    THEN trim_end(SubSeq(s, 1, Len(s) - 1))
    ELSE s

trim(s) == trim_end(trim_start(s))

\* String `<`: lexicographic on code points, a proper prefix is smaller.
RECURSIVE str_lt(_, _)
str_lt(s, t) ==
    IF t = <<>> THEN FALSE
    ELSE IF s = <<>> THEN TRUE
    ELSE IF Head(s) # Head(t) THEN CodePoint(Head(s)) < CodePoint(Head(t))
    ELSE str_lt(Tail(s), Tail(t))

None == <<>>
Some(v) == <<v>>

CONTEXTUAL_PROXIMITY ==
    <<"c", "o", "n", "t", "e", "x", "t", "u", "a", "l", " ",
      "p", "r", "o", "x", "i", "m", "i", "t", "y">>

RELATED == <<"r", "e", "l", "a", "t", "e", "d">>

---------------------------------------------------------------------------
(* GraphBuilder *)

Relation(n1, t1, n2, t2, e) ==
    [node_1 |-> n1, node_1_type |-> t1, node_2 |-> n2, node_2_type |-> t2,
     edge |-> e]

\* GraphBuilder::new
new_builder ==
    [node_indices |-> {},
     node_chunks  |-> <<>>,
     edges        |-> <<>>,
     node_types   |-> <<>>]

\* EdgeData created by entry(key).or_insert_with
empty_edge_data == [relations |-> <<>>, weight |-> 0, chunk_ids |-> {}]

\* HashMap::insert / entry(..).or_default() followed by an update
map_insert(m, k, v) == [x \in DOMAIN m \cup {k} |-> IF x = k THEN v ELSE m[x]]

map_get_or(m, k, default) == IF k \in DOMAIN m THEN m[k] ELSE default

ensure_node(b, label) ==
    [b EXCEPT !.node_indices = @ \cup {trim(to_lowercase(label))}]

\* Mutant of edge_key: the key keeps the direction of the relation
edge_key_directed(node_1, node_2) == <<node_1, node_2>>

\* The edge key of two distinct canonical names: (smaller, larger)
edge_key(node_1, node_2) ==
    IF str_lt(node_1, node_2) THEN <<node_1, node_2>> ELSE <<node_2, node_1>>

\* node_types.insert(node, t) for Some(t) whose lowercase-trim is not empty
store_entity_type(types, node, opt) ==
    IF opt = None THEN types
    ELSE LET t == trim(to_lowercase(opt[1]))
         IN  IF t # <<>> THEN map_insert(types, node, t) ELSE types

\* Mutant of relation_skipped: the names are compared as given
relation_skipped_raw(relation) ==
    \/ relation.node_1 = <<>>
    \/ relation.node_2 = <<>>
    \/ relation.node_1 = relation.node_2

\* The relation is skipped by the `continue` of add_relations
relation_skipped(relation) ==
    LET node_1 == trim(to_lowercase(relation.node_1))
        node_2 == trim(to_lowercase(relation.node_2))
    IN  node_1 = <<>> \/ node_2 = <<>> \/ node_1 = node_2

\* Mutant of push_relation: the chunk id replaces the recorded ones
push_relation_last_chunk(old, edge, chunk_id) ==
    [relations |-> Append(old.relations, edge),
     weight    |-> old.weight + 4,
     chunk_ids |-> {chunk_id}]

\* relations.push(edge); weight += 4.0; chunk_ids.insert(chunk_id)
push_relation(old, edge, chunk_id) ==
    [relations |-> Append(old.relations, edge),
     weight    |-> old.weight + 4,
     chunk_ids |-> old.chunk_ids \cup {chunk_id}]

\* One iteration of the loop of add_relations
add_relation(b, relation, chunk_id) ==
    LET node_1 == trim(to_lowercase(relation.node_1))
        node_2 == trim(to_lowercase(relation.node_2))
    IN  IF relation_skipped(relation) THEN b
        ELSE
        LET b1 == ensure_node(ensure_node(b, node_1), node_2)
            types == store_entity_type(
                         store_entity_type(b1.node_types, node_1,
                                           relation.node_1_type),
                         node_2, relation.node_2_type)
            chunks1 == map_insert(b1.node_chunks, node_1,
                           map_get_or(b1.node_chunks, node_1, {}) \cup {chunk_id})
            chunks2 == map_insert(chunks1, node_2,
                           map_get_or(chunks1, node_2, {}) \cup {chunk_id})
            key == edge_key(node_1, node_2)
            old == map_get_or(b1.edges, key, empty_edge_data)
            new == push_relation(old, relation.edge, chunk_id)
        IN  [b1 EXCEPT !.node_types  = types,
                       !.node_chunks = chunks2,
                       !.edges       = map_insert(b1.edges, key, new)]

RECURSIVE add_relations(_, _, _)
add_relations(b, relations, chunk_id) ==
    IF relations = <<>> THEN b
    ELSE add_relations(add_relation(b, Head(relations), chunk_id),
                       Tail(relations), chunk_id)

\* Mutant of chunk_nodes: no chunk holds any node
chunk_nodes_empty(b) == <<>>

\* chunk_nodes of calculate_contextual_proximity: chunk id -> its nodes
chunk_nodes(b) ==
    LET ids == UNION {b.node_chunks[n] : n \in DOMAIN b.node_chunks}
    IN  [c \in ids |-> {n \in DOMAIN b.node_chunks : c \in b.node_chunks[n]}]

\* Mutant of proximity_phrase_wanted: only the second condition is tested
proximity_phrase_absent(relations) ==
    ~ \E i \in 1..Len(relations) : relations[i] = CONTEXTUAL_PROXIMITY

\* The condition under which the phrase "contextual proximity" is pushed
proximity_phrase_wanted(relations) ==
    /\ \/ relations = <<>>
       \/ ~ \E i \in 1..Len(relations) : relations[i] # CONTEXTUAL_PROXIMITY
    /\ ~ \E i \in 1..Len(relations) : relations[i] = CONTEXTUAL_PROXIMITY

\* Mutant of push_proximity: a chunk already recorded adds no weight
push_proximity_new_chunk(old, chunk_id) ==
    [relations |-> IF proximity_phrase_wanted(old.relations)
                   THEN Append(old.relations, CONTEXTUAL_PROXIMITY)
                   ELSE old.relations,
     weight    |-> IF chunk_id \in old.chunk_ids
                   THEN old.weight ELSE old.weight + 1,
     chunk_ids |-> old.chunk_ids \cup {chunk_id}]

\* The update of the edge data in the inner loop
push_proximity(old, chunk_id) ==
    [relations |-> IF proximity_phrase_wanted(old.relations)
                   THEN Append(old.relations, CONTEXTUAL_PROXIMITY)
                   ELSE old.relations,
     weight    |-> old.weight + 1,
     chunk_ids |-> old.chunk_ids \cup {chunk_id}]

\* The body of the inner loop of calculate_contextual_proximity for the
\* pair (node_1, node_2) of the chunk chunk_id
proximity_pair(edges, chunk_id, node_1, node_2) ==
    LET key == edge_key(node_1, node_2)
        old == map_get_or(edges, key, empty_edge_data)
    IN  map_insert(edges, key, push_proximity(old, chunk_id))

\* The (chunk, pair) iterations of calculate_contextual_proximity: one for
\* each chunk and each two-element set of its nodes (i < j over the Vec)
proximity_items(b) ==
    LET cn == chunk_nodes(b)
    IN  {it \in (DOMAIN cn) \X (SUBSET DOMAIN b.node_chunks) :
            it[2] \subseteq cn[it[1]] /\ Cardinality(it[2]) = 2}

\* The iterations applied one after the other.  The maps are iterated in an
\* unspecified order; the order CHOOSE takes is one of them.
RECURSIVE proximity_fold(_, _)
proximity_fold(edges, items) ==
    IF items = {} THEN edges
    ELSE LET it == CHOOSE x \in items : TRUE
             n1 == CHOOSE n \in it[2] : TRUE
             n2 == CHOOSE n \in it[2] : n # n1
         IN  proximity_fold(proximity_pair(edges, it[1], n1, n2),
                            items \ {it})

calculate_contextual_proximity(b) ==
    [b EXCEPT !.edges = proximity_fold(b.edges, proximity_items(b))]

\* The relation phrase get_edges shows for an edge
projected_relation(relations) ==
    IF \E i \in 1..Len(relations) : relations[i] # CONTEXTUAL_PROXIMITY
    THEN relations[CHOOSE i \in 1..Len(relations) :
                      /\ relations[i] # CONTEXTUAL_PROXIMITY
                      /\ \A j \in 1..(i - 1) :
                            relations[j] = CONTEXTUAL_PROXIMITY]
    ELSE IF \E i \in 1..Len(relations) : relations[i] = CONTEXTUAL_PROXIMITY
         THEN CONTEXTUAL_PROXIMITY
         ELSE RELATED

\* get_edges: the GraphEdge records (the Vec follows the map's iteration
\* order, which is unspecified: the records are given as a set)
get_edges(b) ==
    {[source    |-> key[1],
      target    |-> key[2],
      relation  |-> projected_relation(b.edges[key].relations),
      weight    |-> b.edges[key].weight,
      chunk_ids |-> b.edges[key].chunk_ids] : key \in DOMAIN b.edges}

\* get_nodes: the GraphNode records without their community
get_nodes(b) ==
    {[id          |-> label,
      label       |-> label,
      degree      |-> Cardinality({key \in DOMAIN b.edges :
                                      key[1] = label \/ key[2] = label}),
      entity_type |-> IF label \in DOMAIN b.node_types
                      THEN Some(b.node_types[label]) ELSE None] :
        label \in b.node_indices}

---------------------------------------------------------------------------
(* Response parser: the post-processing of the decoded records *)

\* The map and filter of parse_relations_json over the decoded records
parse_relations(records) ==
    LET cleaned == [i \in 1..Len(records) |->
                       [records[i] EXCEPT
                           !.node_1 = trim(to_lowercase(@)),
                           !.node_2 = trim(to_lowercase(@)),
                           !.edge   = trim(@)]]
        kept(r) == r.node_1 # <<>> /\ r.node_2 # <<>> /\ r.node_1 # r.node_2
    IN  SelectSeq(cleaned, kept)

---------------------------------------------------------------------------
(* BatchProcessor: src/llm/batch_processor.rs *)

\* batch_size as given to BatchProcessor::new
BatchSizeInput == 2

batch_size == IF BatchSizeInput >= 1 THEN BatchSizeInput ELSE 1

\* processed_docs % 10 == 0 saves the progress file
SAVE_EVERY == 10

\* Result<Vec<Relation>>
Ok(relations) == [ok |-> TRUE, relations |-> relations]
Err(error) == [ok |-> FALSE, error |-> error]

NEEDS_FALLBACK ==
    <<"C", "o", "n", "t", "e", "x", "t", " ", "o", "v", "e", "r", "f", "l",
      "o", "w", ",", " ", "n", "e", "e", "d", "s", " ", "f", "a", "l", "l",
      "b", "a", "c", "k">>

overflow_indicators ==
    <<<<"c", "o", "n", "t", "e", "x", "t", " ", "l", "e", "n", "g", "t",
        "h">>,
      <<"c", "o", "n", "t", "e", "x", "t", " ", "w", "i", "n", "d", "o",
        "w">>,
      <<"t", "o", "o", " ", "l", "o", "n", "g">>,
      <<"t", "o", "k", "e", "n", " ", "l", "i", "m", "i", "t">>,
      <<"m", "a", "x", " ", "t", "o", "k", "e", "n", "s">>,
      <<"e", "x", "c", "e", "e", "d", "s">>,
      <<"c", "o", "n", "t", "e", "x", "t", " ", "s", "i", "z", "e">>,
      <<"i", "n", "p", "u", "t", " ", "l", "e", "n", "g", "t", "h">>,
      <<"t", "o", "o", " ", "m", "a", "n", "y", " ", "t", "o", "k", "e",
        "n", "s">>,
      <<"s", "e", "q", "u", "e", "n", "c", "e", " ", "l", "e", "n", "g",
        "t", "h">>>>

\* str::contains
contains(s, pattern) ==
    \E i \in 0..(Len(s) - Len(pattern)) :
        SubSeq(s, i + 1, i + Len(pattern)) = pattern

is_context_overflow(error) ==
    LET error_lower == to_lowercase(error)
    IN  \E i \in 1..Len(overflow_indicators) :
            contains(error_lower, overflow_indicators[i])

\* outcome: what llm_client.extract_relations returned for the batch text
process_batch_with_retry(outcome) ==
    IF outcome.ok THEN Ok(outcome.relations)
    ELSE LET error_str == to_lowercase(outcome.error)
         IN  IF is_context_overflow(error_str) THEN Err(NEEDS_FALLBACK)
             ELSE Err(outcome.error)

\* outcome: what llm_client.extract_relations returned for the chunk text
process_single_chunk(outcome) == outcome

\* The texts of the model, with the hash and the number of chunks
\* AdaptiveChunker.split yields for each
TextInputs == {"alpha", "beta"}

calculate_hash(text) == IF text = "alpha" THEN "ha" ELSE "hb"

\* chunks are named by their chunk_index
split(text) == IF text = "alpha" THEN <<0, 1>> ELSE <<0>>

\* chunks.chunks(self.batch_size)
batches(all_chunks) ==
    LET n == Len(all_chunks)
        count == (n + batch_size - 1) \div batch_size
    IN  [b \in 1..count |->
            SubSeq(all_chunks, (b - 1) * batch_size + 1,
                   IF b * batch_size < n THEN b * batch_size ELSE n)]

ProcessedDoc(hash, chunks_processed, relations_count, timestamp) ==
    [hash |-> hash, chunks_processed |-> chunks_processed,
     relations_count |-> relations_count, timestamp |-> timestamp]

\* Mutant of is_already_processed: an entry of any hash counts
is_already_processed_by_source(hashes, source, hash) ==
    source \in DOMAIN hashes

is_already_processed(hashes, source, hash) ==
    IF source \in DOMAIN hashes THEN hashes[source].hash = hash ELSE FALSE

\* the map read from the progress file if the file exists, else the map
\* the processor holds (the empty map of BatchProcessor::new); an error if
\* the file cannot be decoded
\* Content of a progress file that serde_json cannot decode
UNDECODABLE == [undecodable |-> TRUE]

\* Result<()> and the value left in self.processed_hashes
load_progress(file, hashes) ==
    IF file # None
    THEN IF file[1] = UNDECODABLE
         THEN [ok |-> FALSE, hashes |-> hashes]
         ELSE [ok |-> TRUE, hashes |-> file[1]]
    ELSE [ok |-> TRUE, hashes |-> hashes]

save_progress(hashes) == Some(hashes)

\* Mutant of next_chunk_pos: the fallback loop ends at the first failure
next_chunk_pos_until_error(ok, pos, batch_len) ==
    IF ok THEN pos + 1 ELSE batch_len + 1

\* the fallback loop moves to the next chunk whatever the call returned
next_chunk_pos(ok, pos, batch_len) == pos + 1

InitProcessor ==
    /\ rank_scores = None
    /\ rank_iterations = 0
    /\ model = None
    /\ context_size = None
    /\ chunker = None
    /\ adaptive_chunker = None
    /\ input_text = None
    /\ text_chunks = None
    /\ adaptive_chunks = None
    /\ all_docs = None
    /\ max_per_dir = 0
    /\ selected = None
    /\ store = None
    /\ reweighted = None
    /\ response = None
    /\ json_str = None
    /\ json_again = None
    /\ parsed = None
    /\ graph = None
    /\ communities = None
    /\ query = None
    /\ path_result = None
    /\ ap_pc = "idle"
    /\ concurrency = 0
    /\ semaphore = 0
    /\ process_chunks = <<>>
    /\ tasks = <<>>
    /\ process_result = None
    /\ pc = "idle"
    /\ clock = 0
    /\ progress_file = None
    /\ processed_hashes = <<>>
    /\ documents = <<>>
    /\ doc_idx = 0
    /\ chunks = <<>>
    /\ batch_idx = 0
    /\ chunk_pos = 0
    /\ doc_relations = <<>>
    /\ all_relations = <<>>
    /\ processed_docs = 0
    /\ llm_calls = <<>>

---------------------------------------------------------------------------
(* Inputs and bounds *)

MaxRelations == 2      \* relation phrases recorded in the builder
MaxProximity == 1      \* calculate_contextual_proximity calls on a builder

\* Raw node names: "A" and "a" share a key, " " is empty once trimmed
NodeInputs == {<<"A">>, <<"b", " ">>, <<"c">>}
EdgeInputs == {<<"r">>, CONTEXTUAL_PROXIMITY}
ChunkInputs == {"c1", "c2"}
EnsureInputs == {<<" ", "C">>}

\* Relations over the three names, relations whose names collide or are
\* empty after canonicalization, one with an empty phrase, and relations
\* that give node_1 an entity type
RelationInputs ==
    {Relation(n1, None, n2, None, e) :
        n1 \in NodeInputs, n2 \in NodeInputs, e \in EdgeInputs}
    \cup {Relation(<<"A">>, None, <<"a">>, None, <<"r">>),
          Relation(<<"a">>, None, <<"b", " ">>, None, <<"r">>),
          Relation(<<" ">>, None, <<"c">>, None, <<"r">>),
          Relation(<<"c">>, None, <<>>, None, <<"r">>),
          Relation(<<"A">>, None, <<"c">>, None, <<>>)}
    \cup {Relation(<<"A">>, Some(<<"T", " ">>), n2, None, <<"r">>) :
             n2 \in {<<"b", " ">>, <<"a">>, <<" ">>}}

\* The relations of a call that holds two relations
PairInputs ==
    {Relation(<<"A">>, None, <<"b", " ">>, None, <<"r">>),
     Relation(<<"b", " ">>, None, <<"A">>, None, <<"r">>),
     Relation(<<"b", " ">>, None, <<"c">>, None, <<"r">>),
     Relation(<<"c">>, None, <<"c">>, None, <<"r">>)}

RelationLists ==
    {<<r>> : r \in RelationInputs}
    \cup {<<r1, r2>> : r1 \in PairInputs, r2 \in PairInputs}

\* Decoded LLM replies
ReplyInputs ==
    {<<Relation(<<"A">>, None, <<"c">>, None, <<" ">>)>>,
     <<Relation(<<"A">>, Some(<<"T">>), <<"b", " ">>, None, <<"r", " ">>)>>,
     <<Relation(<<" ">>, None, <<"c">>, None, <<"r">>),
       Relation(<<"b", " ">>, None, <<"c">>, None, <<>>)>>,
     <<Relation(<<"A">>, None, <<"a">>, None, <<"r">>)>>}

RECURSIVE sum_over(_, _)
sum_over(f, keys) ==
    IF keys = {} THEN 0
    ELSE LET k == CHOOSE x \in keys : TRUE
         IN  f[k] + sum_over(f, keys \ {k})

phrases_recorded(b) ==
    sum_over([k \in DOMAIN b.edges |-> Len(b.edges[k].relations)],
             DOMAIN b.edges)

---------------------------------------------------------------------------
(* Spec: one builder, its public operations called in any order *)

Init ==
    /\ builder = new_builder
    /\ proximity_calls = 0
    /\ other = new_builder
    /\ calls = <<>>
    /\ applied = {}
    /\ applied_other = {}
    /\ InitProcessor

\* builder.add_relations(relations, chunk_id)
AddRelations ==
    \E relations \in RelationLists, chunk_id \in ChunkInputs :
        /\ builder' = add_relations(builder, relations, chunk_id)
        /\ phrases_recorded(builder') <= MaxRelations
        /\ UNCHANGED <<proximity_calls, orderVars, batchVars,
                     adaptiveVars, analysisVars>>

\* builder.add_relations(parse_relations_json(reply), chunk_id)
AddParsedRelations ==
    \E reply \in ReplyInputs, chunk_id \in ChunkInputs :
        /\ builder' = add_relations(builder, parse_relations(reply), chunk_id)
        /\ phrases_recorded(builder') <= MaxRelations
        /\ UNCHANGED <<proximity_calls, orderVars, batchVars,
                     adaptiveVars, analysisVars>>

\* builder.calculate_contextual_proximity()
CalculateContextualProximity ==
    /\ proximity_calls < MaxProximity
    /\ builder' = calculate_contextual_proximity(builder)
    /\ proximity_calls' = proximity_calls + 1
    /\ UNCHANGED <<orderVars, batchVars,
                     adaptiveVars, analysisVars>>

\* builder.ensure_node_public(label)
EnsureNode ==
    \E label \in EnsureInputs :
        /\ builder' = ensure_node(builder, label)
        /\ UNCHANGED <<proximity_calls, orderVars, batchVars,
                     adaptiveVars, analysisVars>>

Next ==
    \/ AddRelations
    \/ AddParsedRelations
    \/ CalculateContextualProximity
    \/ EnsureNode

Spec == Init /\ [][Next]_vars

---------------------------------------------------------------------------
(* SpecOrder and SpecPartition: two builders fed the same calls *)

MaxCalls == 2          \* add_relations calls given to the two builders

Call(relations, chunk_id) == [relations |-> relations, chunk_id |-> chunk_id]

TypedAB  == Relation(<<"A">>, Some(<<"T">>), <<"b", " ">>, None, <<"r">>)
TypedBA  == Relation(<<"b", " ">>, None, <<"a">>, Some(<<"U">>), <<"s">>)
PlainBC  == Relation(<<"b", " ">>, None, <<"c">>, None, CONTEXTUAL_PROXIMITY)
PlainAC  == Relation(<<"A">>, None, <<"c">>, Some(<<" ">>), <<"r">>)
LoopCC   == Relation(<<"c">>, Some(<<"T">>), <<"C">>, None, <<"r">>)

CallInputs ==
    {Call(<<TypedAB>>, "c1"),
     Call(<<TypedBA>>, "c2"),
     Call(<<PlainBC>>, "c1"),
     Call(<<PlainAC, TypedAB>>, "c1"),
     Call(<<LoopCC>>, "c2"),
     Call(<<TypedBA, PlainBC>>, "c2")}

\* <<i, j>>: relation j of call i; <<0, 0>>: the closing
\* calculate_contextual_proximity call
call_items(i) == {<<i, j>> : j \in 1..Len(calls[i].relations)}
all_items == UNION {call_items(i) : i \in 1..Len(calls)}
proximity_item == <<0, 0>>

InitOrder ==
    /\ builder = new_builder
    /\ proximity_calls = 0
    /\ other = new_builder
    /\ calls \in [1..MaxCalls -> CallInputs]
    /\ applied = {}
    /\ applied_other = {}
    /\ InitProcessor

\* builder.add_relations(calls[i].relations, calls[i].chunk_id)
ApplyCall ==
    \E i \in 1..Len(calls) :
        /\ call_items(i) \cap applied = {}
        /\ proximity_item \notin applied
        /\ builder' = add_relations(builder, calls[i].relations,
                                    calls[i].chunk_id)
        /\ applied' = applied \cup call_items(i)
        /\ UNCHANGED <<proximity_calls, other, calls, applied_other,
                       batchVars,
                     adaptiveVars, analysisVars>>

\* other.add_relations(calls[i].relations, calls[i].chunk_id)
ApplyCallOther ==
    \E i \in 1..Len(calls) :
        /\ call_items(i) \cap applied_other = {}
        /\ proximity_item \notin applied_other
        /\ other' = add_relations(other, calls[i].relations,
                                  calls[i].chunk_id)
        /\ applied_other' = applied_other \cup call_items(i)
        /\ UNCHANGED <<builderVars, calls, applied, batchVars,
                     adaptiveVars, analysisVars>>

\* builder.calculate_contextual_proximity() once every call was applied
CloseBuilder ==
    /\ applied = all_items
    /\ builder' = calculate_contextual_proximity(builder)
    /\ proximity_calls' = proximity_calls + 1
    /\ applied' = applied \cup {proximity_item}
    /\ UNCHANGED <<other, calls, applied_other, batchVars,
                     adaptiveVars, analysisVars>>

\* other.calculate_contextual_proximity() once every call was applied
CloseOther ==
    /\ applied_other = all_items
    /\ other' = calculate_contextual_proximity(other)
    /\ applied_other' = applied_other \cup {proximity_item}
    /\ UNCHANGED <<builderVars, calls, applied, batchVars,
                     adaptiveVars, analysisVars>>

NextOrder == ApplyCall \/ ApplyCallOther \/ CloseBuilder \/ CloseOther

SpecOrder == InitOrder /\ [][NextOrder]_vars

\* other.add_relations(relations, chunk_id) for one or two of the relations
\* not yet applied to other that were extracted for the same chunk id, taken
\* in any order and from any of the calls
ApplyRegrouped ==
    \E first \in all_items \ applied_other :
        \E rest \in SUBSET (all_items \ (applied_other \cup {first})) :
            /\ Cardinality(rest) <= 1
            /\ \A it \in rest :
                  calls[it[1]].chunk_id = calls[first[1]].chunk_id
            /\ LET relation_at(it) == calls[it[1]].relations[it[2]]
                   relations ==
                       <<relation_at(first)>>
                       \o (IF rest = {} THEN <<>>
                           ELSE <<relation_at(CHOOSE it \in rest : TRUE)>>)
               IN  other' = add_relations(other, relations,
                                          calls[first[1]].chunk_id)
            /\ applied_other' = applied_other \cup {first} \cup rest
            /\ UNCHANGED <<builderVars, calls, applied, batchVars,
                           adaptiveVars, analysisVars>>

NextPartition == ApplyCall \/ ApplyRegrouped

SpecPartition == InitOrder /\ [][NextPartition]_vars

---------------------------------------------------------------------------
(* SpecBatch: runs of the build command over the batch processor *)

MaxRuns == 2           \* runs of the build command
MaxDocs == 2           \* documents given to one run

TOKEN_LIMIT_REACHED ==
    <<"T", "o", "k", "e", "n", " ", "l", "i", "m", "i", "t", " ", "r", "e",
      "a", "c", "h", "e", "d">>
CONNECTION_REFUSED ==
    <<"C", "o", "n", "n", "e", "c", "t", "i", "o", "n", " ", "r", "e", "f",
      "u", "s", "e", "d">>

\* Error messages of the LLM client: one that names a context overflow and
\* one that does not
ErrorInputs == {TOKEN_LIMIT_REACHED, CONNECTION_REFUSED}

ContextOverflowOf == [e \in ErrorInputs |-> is_context_overflow(e)]

Document(source, text) == [source |-> source, text |-> text]

DocumentInputs ==
    {Document("s1", "alpha"), Document("s1", "beta"),
     Document("s2", "alpha")}

DocumentLists == UNION {[1..n -> DocumentInputs] : n \in 1..MaxDocs}

\* The relation the LLM extracts from the text of the given chunks
extracted(source, chunk_indices) ==
    [source |-> source, chunks |-> chunk_indices]

\* What llm_client.extract_relations can return for a text
LlmOutcomes(source, chunk_indices) ==
    {Ok(<<extracted(source, chunk_indices)>>)}
    \cup {Err(e) : e \in ErrorInputs}

LlmCall(doc, batch, chunk_indices, single, outcome) ==
    [doc |-> doc, batch |-> batch, chunks |-> chunk_indices,
     single |-> single, outcome |-> outcome]

current_batch == batches(chunks)[batch_idx + 1]

\* BatchProcessor::new, with_progress_persistence, load_progress and the
\* entry of process_documents; `processor.load_progress().await?` ends the
\* run with the error of load_progress
StartRunWith(lists) ==
    /\ pc \in {"idle", "done", "failed"}
    /\ ap_pc = "idle"
    /\ clock < MaxRuns
    /\ clock' = clock + 1
    /\ processed_hashes' = load_progress(progress_file, <<>>).hashes
    /\ documents' \in lists
    /\ doc_idx' = 1
    /\ all_relations' = <<>>
    /\ processed_docs' = 0
    /\ llm_calls' = <<>>
    /\ chunks' = <<>>
    /\ batch_idx' = 0
    /\ chunk_pos' = 0
    /\ doc_relations' = <<>>
    /\ pc' = IF load_progress(progress_file, <<>>).ok THEN "document"
             ELSE "failed"
    /\ UNCHANGED <<progress_file, builderVars, orderVars,
                   adaptiveVars, analysisVars>>

StartRun == StartRunWith(DocumentLists)

\* Between two runs the progress file is damaged on disk (a truncated
\* write, an edit by hand)
DamageProgressFile ==
    /\ pc = "done"
    /\ progress_file # None
    /\ progress_file' = Some(UNDECODABLE)
    /\ UNCHANGED <<pc, clock, processed_hashes, documents, doc_idx, chunks,
                   batch_idx, chunk_pos, doc_relations, all_relations,
                   processed_docs, llm_calls, builderVars, orderVars,
                   adaptiveVars, analysisVars>>

\* One turn of `for (source, text) in documents`, up to the first LLM call
NextDocument ==
    /\ pc = "document"
    /\ doc_idx <= Len(documents)
    /\ LET source == documents[doc_idx].source
           text == documents[doc_idx].text
           hash == calculate_hash(text)
       IN  IF is_already_processed(processed_hashes, source, hash)
           THEN /\ doc_idx' = doc_idx + 1
                /\ UNCHANGED <<pc, chunks, batch_idx, doc_relations>>
           ELSE /\ chunks' = split(text)
                /\ batch_idx' = 0
                /\ doc_relations' = <<>>
                /\ pc' = IF Len(batches(chunks')) = 0 THEN "record"
                         ELSE "batch"
                /\ UNCHANGED doc_idx
    /\ UNCHANGED <<clock, progress_file, processed_hashes, documents,
                   chunk_pos, all_relations, processed_docs, llm_calls,
                   builderVars, orderVars,
                   adaptiveVars, analysisVars>>

\* One turn of `for (batch_idx, batch) in batches`: extract_relations is
\* called with the batch text and awaited
CallBatch ==
    /\ pc = "batch"
    /\ pc' = "batch_call"
    /\ UNCHANGED <<clock, progress_file, processed_hashes, documents,
                   doc_idx, chunks, batch_idx, chunk_pos, doc_relations,
                   all_relations, processed_docs, llm_calls, builderVars,
                   orderVars, adaptiveVars, analysisVars>>

\* The batched call returns
ProcessBatch ==
    /\ pc = "batch_call"
    /\ \E outcome \in LlmOutcomes(documents[doc_idx].source, current_batch) :
          LET result == process_batch_with_retry(outcome)
          IN  /\ llm_calls' =
                     Append(llm_calls,
                            LlmCall(doc_idx, batch_idx, current_batch,
                                    FALSE, outcome))
              /\ IF result.ok
                 THEN /\ doc_relations' = doc_relations \o result.relations
                      /\ batch_idx' = batch_idx + 1
                      /\ pc' = IF batch_idx' < Len(batches(chunks))
                               THEN "batch" ELSE "record"
                      /\ UNCHANGED chunk_pos
                 ELSE /\ pc' = "fallback"
                      /\ chunk_pos' = 1
                      /\ UNCHANGED <<doc_relations, batch_idx>>
    /\ UNCHANGED <<clock, progress_file, processed_hashes, documents,
                   doc_idx, chunks, all_relations, processed_docs,
                   builderVars, orderVars,
                   adaptiveVars, analysisVars>>

\* One turn of the fallback `for chunk in batch.iter()`: extract_relations
\* is called with the chunk text and awaited
CallSingleChunk ==
    /\ pc = "fallback"
    /\ pc' = "chunk_call"
    /\ UNCHANGED <<clock, progress_file, processed_hashes, documents,
                   doc_idx, chunks, batch_idx, chunk_pos, doc_relations,
                   all_relations, processed_docs, llm_calls, builderVars,
                   orderVars, adaptiveVars, analysisVars>>

\* The single-chunk call returns
ProcessSingleChunk ==
    /\ pc = "chunk_call"
    /\ \E outcome \in LlmOutcomes(documents[doc_idx].source,
                                  <<current_batch[chunk_pos]>>) :
          LET result == process_single_chunk(outcome)
          IN  /\ llm_calls' =
                     Append(llm_calls,
                            LlmCall(doc_idx, batch_idx,
                                    <<current_batch[chunk_pos]>>,
                                    TRUE, outcome))
              /\ doc_relations' =
                     IF result.ok THEN doc_relations \o result.relations
                     ELSE doc_relations
              /\ chunk_pos' =
                     next_chunk_pos(result.ok, chunk_pos, Len(current_batch))
              /\ IF chunk_pos' <= Len(current_batch)
                 THEN /\ pc' = "fallback"
                      /\ UNCHANGED batch_idx
                 ELSE /\ batch_idx' = batch_idx + 1
                      /\ pc' = IF batch_idx' < Len(batches(chunks))
                               THEN "batch" ELSE "record"
    /\ UNCHANGED <<clock, progress_file, processed_hashes, documents,
                   doc_idx, chunks, all_relations, processed_docs,
                   builderVars, orderVars,
                   adaptiveVars, analysisVars>>

\* Mutant of save_due: the file is written at the end of the run only
save_never(count) == FALSE

\* `if processed_docs % 10 == 0`
save_due(count) == count % SAVE_EVERY = 0

\* The rest of the turn: the document is marked as processed.  The
\* timestamp is read from the system clock; here the clock is the number of
\* the run.
RecordDocument ==
    /\ pc = "record"
    /\ LET source == documents[doc_idx].source
           hash == calculate_hash(documents[doc_idx].text)
       IN  processed_hashes' =
               map_insert(processed_hashes, source,
                          ProcessedDoc(hash, Len(chunks), Len(doc_relations),
                                       clock))
    /\ all_relations' = all_relations \o doc_relations
    /\ processed_docs' = processed_docs + 1
    /\ progress_file' =
           IF save_due(processed_docs')
           THEN save_progress(processed_hashes')
           ELSE progress_file
    /\ doc_idx' = doc_idx + 1
    /\ pc' = "document"
    /\ UNCHANGED <<clock, documents, chunks, batch_idx, chunk_pos,
                   doc_relations, llm_calls, builderVars, orderVars,
                   adaptiveVars, analysisVars>>

\* After the loop: the final save, and all_relations is returned
FinishRun ==
    /\ pc = "document"
    /\ doc_idx > Len(documents)
    /\ progress_file' = save_progress(processed_hashes)
    /\ pc' = "done"
    /\ UNCHANGED <<clock, processed_hashes, documents, doc_idx, chunks,
                   batch_idx, chunk_pos, doc_relations, all_relations,
                   processed_docs, llm_calls, builderVars, orderVars,
                   adaptiveVars, analysisVars>>

\* extract_relations calls awaiting their reply: process_documents awaits
\* each call before it issues the next
in_flight == IF pc \in {"batch_call", "chunk_call"} THEN 1 ELSE 0

NextBatch ==
    \/ StartRun
    \/ DamageProgressFile
    \/ NextDocument
    \/ CallBatch
    \/ ProcessBatch
    \/ CallSingleChunk
    \/ ProcessSingleChunk
    \/ RecordDocument
    \/ FinishRun

SpecBatch == Init /\ [][NextBatch]_vars

---------------------------------------------------------------------------
(* SpecProgress: runs over enough documents for the periodic save.  Every
   call of the LLM succeeds: what a failed call changes is the relations of
   a document, which the saves do not depend on. *)

LongSources ==
    <<"s1", "s2", "s3", "s4", "s5", "s6", "s7", "s8", "s9", "s10", "s11",
      "s12">>

\* n documents of different sources
distinct_docs(n) == [i \in 1..n |-> Document(LongSources[i], "alpha")]

\* Lists around SAVE_EVERY documents; in one a document comes twice and is
\* skipped the second time, in one a source comes again with another text.
LongDocumentLists ==
    {distinct_docs(n) :
        n \in {1, SAVE_EVERY - 1, SAVE_EVERY, SAVE_EVERY + 2}}
    \cup {[distinct_docs(SAVE_EVERY + 2) EXCEPT ![3] = distinct_docs(1)[1]],
          [distinct_docs(SAVE_EVERY + 2) EXCEPT
              ![5] = Document(LongSources[2], "beta")]}

StartLongRun == StartRunWith(LongDocumentLists)

NextProgress ==
    \/ StartLongRun
    \/ NextDocument
    \/ CallBatch
    \/ ProcessBatch /\ pc' # "fallback"
    \/ RecordDocument
    \/ FinishRun

SpecProgress == Init /\ [][NextProgress]_vars

---------------------------------------------------------------------------
(* SpecCancel: a run of the batch processor that is cancelled.  The code
   has no handler for a cancellation: the future of process_documents is
   dropped, or the process is ended, while it awaits a reply of the LLM, and
   nothing of process_documents runs after that. *)

Cancel ==
    /\ pc \in {"batch_call", "chunk_call"}
    /\ pc' = "cancelled"
    /\ UNCHANGED <<clock, progress_file, processed_hashes, documents,
                   doc_idx, chunks, batch_idx, chunk_pos, doc_relations,
                   all_relations, processed_docs, llm_calls, builderVars,
                   orderVars, adaptiveVars, analysisVars>>

NextCancel ==
    \/ NextBatch
    \/ Cancel

SpecCancel == Init /\ [][NextCancel]_vars

---------------------------------------------------------------------------
(* SpecAdaptive: AdaptiveProcessor::process, src/llm/adaptive_processor.rs *)

MaxChunks == 2         \* chunks of the text given to process
MaxConcurrency == 2    \* permits of the semaphore
MaxTokens == 3         \* estimated_tokens of a chunk

\* `let max_attempts = 3;`
max_attempts == 3

\* Result<Vec<Relation>> of a task: the error is "" for Ok, else what the
\* task gave up on
TaskOk(relations) == [ok |-> TRUE, relations |-> relations, error |-> ""]
TaskErr(error) == [ok |-> FALSE, relations |-> <<>>, error |-> error]

\* A task spawned for a chunk: `calls` counts its extract_relations calls
Task(chunk_index, tokens) ==
    [state |-> "ready", chunk_index |-> chunk_index, tokens |-> tokens,
     attempt |-> 0, calls |-> 0, permit |-> TRUE, result |-> TaskOk(<<>>)]

\* estimated_tokens of the first chunk split_with_target(text, new_target)
\* can yield for a chunk of the given estimated_tokens, None if it yields
\* no chunk: the first chunk is a piece of the text.
first_sub_chunks(tokens, new_target) ==
    {None} \cup {Some(n) : n \in 1..tokens}

\* One turn of the loop of process_chunk_with_retry, from the reply of
\* extract_relations on: the task it leaves
after_reply(task, outcome, first_sub) ==
    IF outcome.ok
    THEN [task EXCEPT !.state = "done",
                      !.result = TaskOk(outcome.relations)]
    ELSE IF ContextOverflowOf[outcome.error]
    THEN LET attempt == task.attempt + 1
             new_target == task.tokens \div 2
         IN  IF attempt >= max_attempts
             THEN [task EXCEPT !.state = "done", !.attempt = attempt,
                               !.result = TaskErr("context overflow")]
             ELSE IF first_sub = None
             THEN [task EXCEPT !.state = "done", !.attempt = attempt,
                               !.result = TaskErr("cannot split")]
             ELSE [task EXCEPT !.state = "ready", !.attempt = attempt,
                               !.tokens = first_sub[1]]
    ELSE [task EXCEPT !.state = "done", !.result = TaskErr("llm error")]

RECURSIVE returned_of(_)
\* all_relations of process: the relations of the tasks that returned Ok,
\* in task order
returned_of(joined) ==
    IF joined = <<>> THEN <<>>
    ELSE (IF Head(joined).result.ok THEN Head(joined).result.relations
          ELSE <<>>)
         \o returned_of(Tail(joined))

\* The loops over the joined tasks and the two tests that follow them
join_tasks(joined) ==
    LET all == returned_of(joined)
        errors == {i \in 1..Len(joined) : ~joined[i].result.ok}
    IN  IF errors # {} /\ all = <<>> THEN TaskErr("all chunks failed")
        ELSE TaskOk(all)

\* Mutant of permit_available: a task is spawned without a permit
permit_always_available(permits) == TRUE

\* semaphore.acquire_owned().await returns once a permit is available
permit_available(permits) == permits > 0

ChunkLists == UNION {[1..n -> 1..MaxTokens] : n \in 0..MaxChunks}

\* process(text, source) is called: the text is split and the semaphore is
\* created
StartProcess ==
    /\ ap_pc = "idle"
    /\ pc = "idle"
    /\ concurrency' \in 1..MaxConcurrency
    /\ semaphore' = concurrency'
    /\ process_chunks' \in ChunkLists
    /\ tasks' = <<>>
    /\ process_result' = None
    /\ ap_pc' = "spawning"
    /\ UNCHANGED <<builderVars, orderVars, batchVars,
                   analysisVars>>

\* One turn of `for chunk in chunks`: a permit is acquired and the task of
\* the chunk is spawned with it
SpawnTask ==
    /\ ap_pc = "spawning"
    /\ Len(tasks) < Len(process_chunks)
    /\ permit_available(semaphore)
    /\ semaphore' = semaphore - 1
    /\ tasks' = Append(tasks,
                       Task(Len(tasks), process_chunks[Len(tasks) + 1]))
    /\ UNCHANGED <<ap_pc, concurrency, process_chunks, process_result,
                   builderVars, orderVars, batchVars,
                   analysisVars>>

\* A task calls client.extract_relations with the text of its chunk
TaskCall ==
    \E t \in 1..Len(tasks) :
        /\ tasks[t].state = "ready"
        /\ tasks' = [tasks EXCEPT ![t].state = "calling",
                                  ![t].calls = tasks[t].calls + 1]
        /\ UNCHANGED <<ap_pc, concurrency, semaphore, process_chunks,
                       process_result, builderVars, orderVars, batchVars,
                   analysisVars>>

\* The call of a task returns; a task that completes drops its permit
TaskReply ==
    \E t \in 1..Len(tasks) :
        /\ tasks[t].state = "calling"
        /\ \E outcome \in LlmOutcomes("text", <<tasks[t].chunk_index>>),
              first_sub \in first_sub_chunks(tasks[t].tokens,
                                             tasks[t].tokens \div 2) :
              LET task == after_reply(tasks[t], outcome, first_sub)
                  completed == task.state = "done"
              IN  /\ tasks' = [tasks EXCEPT
                                  ![t] = [task EXCEPT
                                             !.permit = ~completed]]
                  /\ semaphore' = IF completed THEN semaphore + 1
                                  ELSE semaphore
        /\ UNCHANGED <<ap_pc, concurrency, process_chunks, process_result,
                       builderVars, orderVars, batchVars,
                   analysisVars>>

\* Every task was spawned and has completed: `for task in tasks` joins
\* them and process returns
JoinTasks ==
    /\ ap_pc = "spawning"
    /\ Len(tasks) = Len(process_chunks)
    /\ \A t \in 1..Len(tasks) : tasks[t].state = "done"
    /\ process_result' = Some(join_tasks(tasks))
    /\ ap_pc' = "done"
    /\ UNCHANGED <<concurrency, semaphore, process_chunks, tasks,
                   builderVars, orderVars, batchVars,
                   analysisVars>>

NextAdaptive ==
    \/ StartProcess
    \/ SpawnTask
    \/ TaskCall
    \/ TaskReply
    \/ JoinTasks

SpecAdaptive == Init /\ [][NextAdaptive]_vars

\* The build uses one of the two processors
NextProcessors == NextBatch \/ NextAdaptive

SpecProcessors == Init /\ [][NextProcessors]_vars

---------------------------------------------------------------------------
(* SpecParse: the reply parser, src/llm/parsing.rs *)

\* A Rust &str is indexed by byte; the model keeps a string as the sequence
\* of its characters and computes byte offsets from the encoded length of
\* each character.  "U+00E9" stands for the one character e-acute, which
\* takes two bytes; every other character of the model takes one.
\* "U+0060" stands for the one character grave accent, of which a code
\* fence has three.
NON_ASCII == "U+00E9"

GRAVE_ACCENT == "U+0060"

FENCE == <<GRAVE_ACCENT, GRAVE_ACCENT, GRAVE_ACCENT>>

len_utf8(c) == IF c = NON_ASCII THEN 2 ELSE 1

\* s.len(): the length in bytes.
RECURSIVE len(_)
len(s) == IF s = <<>> THEN 0 ELSE len_utf8(Head(s)) + len(Tail(s))

\* The byte offset at which the character of index k (from 0) starts.
byte_offset(s, k) == len(SubSeq(s, 1, k))

is_char_boundary(s, index) ==
    \E k \in 0..Len(s) : byte_offset(s, k) = index

chars_before(s, index) == CHOOSE k \in 0..Len(s) : byte_offset(s, k) = index

Sliced(value) == [panic |-> FALSE, value |-> value]

PANIC == [panic |-> TRUE, value |-> <<>>]

\* &s[start..end]: panics unless both offsets are character boundaries.
slice(s, start, end) ==
    IF start <= end /\ is_char_boundary(s, start) /\ is_char_boundary(s, end)
    THEN Sliced(SubSeq(s, chars_before(s, start) + 1, chars_before(s, end)))
    ELSE PANIC

starts_with(s, prefix) ==
    Len(s) >= Len(prefix) /\ SubSeq(s, 1, Len(prefix)) = prefix

\* s.find(c): the byte offset of the first occurrence of the character.
find(s, c) ==
    IF \E i \in 1..Len(s) : s[i] = c
    THEN Some(byte_offset(s,
              (CHOOSE i \in 1..Len(s) :
                  s[i] = c /\ \A j \in 1..(i - 1) : s[j] # c) - 1))
    ELSE None

\* s.rfind(pattern): the byte offset of the last occurrence of the pattern.
rfind(s, pattern) ==
    LET at(i) == SubSeq(s, i + 1, i + Len(pattern)) = pattern
        found == {i \in 0..(Len(s) - Len(pattern)) : at(i)}
    IN  IF found = {} THEN None
        ELSE Some(byte_offset(s, CHOOSE i \in found :
                                     \A j \in found : j <= i))

strip_code_fences(str) ==
    LET s == trim(str)
        first_newline == find(s, "\n")
        inner == slice(s, first_newline[1] + 1, len(s)).value
        closing == rfind(inner, FENCE)
    IN  IF starts_with(s, FENCE) /\ first_newline # None /\ closing # None
        THEN trim(slice(inner, 0, closing[1]).value)
        ELSE s

\* The loop of find_matching_bracket from the character of index i on; the
\* index it returns counts characters, s.chars().enumerate().
RECURSIVE scan_brackets(_, _, _, _, _)
scan_brackets(s, i, depth, in_string, escape_next) ==
    IF i >= Len(s) THEN None
    ELSE LET c == s[i + 1]
         IN  IF escape_next
             THEN scan_brackets(s, i + 1, depth, in_string, FALSE)
             ELSE IF c = "\\" /\ in_string
             THEN scan_brackets(s, i + 1, depth, in_string, TRUE)
             ELSE IF c = "\""
             THEN scan_brackets(s, i + 1, depth, ~in_string, FALSE)
             ELSE IF in_string
             THEN scan_brackets(s, i + 1, depth, in_string, FALSE)
             ELSE IF c = "["
             THEN scan_brackets(s, i + 1, depth + 1, in_string, FALSE)
             ELSE IF c = "]"
             THEN IF depth - 1 = 0 THEN Some(i)
                  ELSE scan_brackets(s, i + 1, depth - 1, in_string, FALSE)
             ELSE scan_brackets(s, i + 1, depth, in_string, FALSE)

find_matching_bracket(s) == scan_brackets(s, 0, 0, FALSE, FALSE)

extract_json_array(text) ==
    LET stripped == strip_code_fences(trim(text))
        end_1 == find_matching_bracket(stripped)
        start == find(stripped, "[")
        end_2 == find_matching_bracket(
                     slice(stripped, start[1], len(stripped)).value)
    IN  IF starts_with(stripped, <<"[">>) /\ end_1 # None
        THEN slice(stripped, 0, end_1[1] + 1)
        ELSE IF start # None /\ end_2 # None
        THEN slice(stripped, start[1], start[1] + end_2[1] + 1)
        ELSE Sliced(stripped)

\* serde_json::from_str::<Vec<Relation>>: of the strings over the characters
\* of the model only the array of no element decodes, with white space
\* allowed inside and around it.
from_str(text) ==
    LET s == trim(text)
    IN  IF /\ Len(s) >= 2
           /\ s[1] = "["
           /\ s[Len(s)] = "]"
           /\ \A i \in 2..(Len(s) - 1) : is_whitespace(s[i])
        THEN Ok(<<>>)
        ELSE Err("expected value")

\* What parse_relations_json returns, or PANIC when the slice in
\* extract_json_array panics.
parse_relations_json(text) ==
    LET extracted_json == extract_json_array(text)
        decoded == from_str(extracted_json.value)
    IN  IF extracted_json.panic THEN PANIC
        ELSE IF decoded.ok
        THEN [panic |-> FALSE,
              value |-> Ok(parse_relations(decoded.relations))]
        ELSE [panic |-> FALSE, value |-> Ok(<<>>)]

MaxPieces == 6

ResponsePieces ==
    {FENCE, <<"\n">>, <<"[">>, <<"]">>, <<"\"">>, <<NON_ASCII>>}

RECURSIVE concat(_)
concat(pieces) ==
    IF pieces = <<>> THEN <<>> ELSE Head(pieces) \o concat(Tail(pieces))

ResponseInputs ==
    {concat(pieces) :
        pieces \in UNION {[1..n -> ResponsePieces] : n \in 0..MaxPieces}}

ReceiveResponse ==
    /\ response = None
    /\ \E text \in ResponseInputs : response' = Some(text)
    /\ UNCHANGED <<json_str, json_again, parsed, graphVars, builderVars,
                   orderVars, batchVars, adaptiveVars, moreVars>>

ExtractJsonArray ==
    /\ response # None
    /\ json_str = None
    /\ json_str' = Some(extract_json_array(response[1]))
    /\ UNCHANGED <<response, json_again, parsed, graphVars, builderVars,
                   orderVars, batchVars, adaptiveVars, moreVars>>

\* extract_json_array given what it returned.
ExtractJsonArrayAgain ==
    /\ json_str # None
    /\ ~json_str[1].panic
    /\ json_again = None
    /\ json_again' = Some(extract_json_array(json_str[1].value))
    /\ UNCHANGED <<response, json_str, parsed, graphVars, builderVars,
                   orderVars, batchVars, adaptiveVars, moreVars>>

ParseRelationsJson ==
    /\ response # None
    /\ parsed = None
    /\ parsed' = Some(parse_relations_json(response[1]))
    /\ UNCHANGED <<response, json_str, json_again, graphVars, builderVars,
                   orderVars, batchVars, adaptiveVars, moreVars>>

NextParse ==
    \/ ReceiveResponse
    \/ ExtractJsonArray
    \/ ExtractJsonArrayAgain
    \/ ParseRelationsJson

SpecParse == Init /\ [][NextParse]_vars

---------------------------------------------------------------------------
(* SpecCommunity: GraphBuilder::build and src/graph/community.rs *)

\* A DiGraph<String, f64>: nodes[i] is the label of the node of index i - 1,
\* and an edge names its two nodes by their position in nodes.
DiGraph(nodes, edges) == [nodes |-> nodes, edges |-> edges]

Edge(source, target, weight) ==
    [source |-> source, target |-> target, weight |-> weight]

\* The orders in which node_indices.keys() can yield the labels: the map is
\* a HashMap, whose iteration order changes from one run to the next.
node_orders(b) ==
    {order \in [1..Cardinality(b.node_indices) -> b.node_indices] :
        \A i, j \in DOMAIN order : order[i] = order[j] => i = j}

\* build(), its nodes added in the given order of the keys
build(b, order) ==
    LET indices == [label \in b.node_indices |->
                       CHOOSE i \in 1..Len(order) : order[i] = label]
        keys == {key \in DOMAIN b.edges :
                    key[1] \in b.node_indices /\ key[2] \in b.node_indices}
    IN  DiGraph(order,
                {Edge(indices[key[1]], indices[key[2]], b.edges[key].weight) :
                    key \in keys})

joins(edge, i, j) ==
    \/ edge.source = i /\ edge.target = j
    \/ edge.source = j /\ edge.target = i

\* The nodes that `undirected` joins to ni, ni itself left out.
neighbors(g, ni) ==
    {j \in 1..Len(g.nodes) \ {ni} : \E edge \in g.edges : joins(edge, ni, j)}

\* The weight of the one edge that `undirected` keeps for two nodes: the
\* first in edge order, and the only one in a graph that build() returns.
undirected_weight(g, i, j) ==
    (CHOOSE edge \in g.edges : joins(edge, i, j)).weight

vote_weights(g, labels, ni) ==
    LET voters(label) == {j \in neighbors(g, ni) : labels[j] = label}
    IN  [label \in {labels[j] : j \in neighbors(g, ni)} |->
            sum_over([j \in voters(label) |-> undirected_weight(g, ni, j)],
                     voters(label))]

\* Mutant of best_label: the label of the first node wins
best_label_of_first_node(votes) == 0

\* max_by weight, the smaller label winning ties
best_label(votes) ==
    CHOOSE label \in DOMAIN votes :
        \A l2 \in DOMAIN votes \ {label} :
            \/ votes[label] > votes[l2]
            \/ votes[label] = votes[l2] /\ label < l2

\* One iteration from node ni on, each node seeing the labels already set.
RECURSIVE sweep(_, _, _)
sweep(g, labels, ni) ==
    IF ni > Len(g.nodes) THEN labels
    ELSE LET votes == vote_weights(g, labels, ni)
         IN  IF DOMAIN votes = {} THEN sweep(g, labels, ni + 1)
             ELSE sweep(g, [labels EXCEPT ![ni] = best_label(votes)], ni + 1)

RECURSIVE iterate(_, _, _)
iterate(g, labels, iterations) ==
    IF iterations = 0 THEN labels
    ELSE LET swept == sweep(g, labels, 1)
         IN  IF swept = labels THEN labels
             ELSE iterate(g, swept, iterations - 1)

\* Mutant of remap_labels: the labels are returned as they are
raw_labels(labels) == labels

RECURSIVE remap_from(_, _, _, _, _)
remap_from(labels, ni, community_id_map, next_id, result) ==
    IF ni > Len(labels) THEN result
    ELSE IF labels[ni] \in DOMAIN community_id_map
    THEN remap_from(labels, ni + 1, community_id_map, next_id,
                    Append(result, community_id_map[labels[ni]]))
    ELSE remap_from(labels, ni + 1,
                    map_insert(community_id_map, labels[ni], next_id),
                    next_id + 1, Append(result, next_id))

\* The contiguous community ids, in node index order
remap_labels(labels) == remap_from(labels, 1, <<>>, 0, <<>>)

\* The community of each node, by position in nodes
label_propagation(g, max_iterations) ==
    IF Len(g.nodes) = 0 THEN <<>>
    ELSE remap_labels(iterate(g, [i \in 1..Len(g.nodes) |-> i - 1],
                              max_iterations))

MAX_ITERATIONS == 50

\* get_nodes: the community of the node of the graph that has the label
community_of(g, node_communities, label) ==
    node_communities[CHOOSE ni \in 1..Len(g.nodes) : g.nodes[ni] = label]

MaxEdgeRelations == 2

CommunityNodeInputs == {<<"a">>, <<"b">>, <<"c">>, <<"d">>}

\* add_relations with one relation between two of the four names
AddEdgeRelation ==
    \E node_1 \in CommunityNodeInputs, node_2 \in CommunityNodeInputs :
        /\ graph = None
        /\ node_1 # node_2
        /\ Len(map_get_or(builder.edges, edge_key(node_1, node_2),
                          empty_edge_data).relations) < MaxEdgeRelations
        /\ builder' = add_relations(
               builder, <<Relation(node_1, None, node_2, None, <<"r">>)>>,
               "c1")
        /\ UNCHANGED <<proximity_calls, orderVars, batchVars,
                       adaptiveVars, analysisVars>>

Build ==
    /\ graph = None
    /\ \E order \in node_orders(builder) :
           graph' = Some(build(builder, order))
    /\ UNCHANGED <<communities, query, path_result, parseVars, builderVars,
                   orderVars, batchVars, adaptiveVars, moreVars>>

LabelPropagation ==
    /\ graph # None
    /\ communities = None
    /\ communities' = Some(label_propagation(graph[1], MAX_ITERATIONS))
    /\ UNCHANGED <<graph, query, path_result, parseVars, builderVars,
                   orderVars, batchVars, adaptiveVars, moreVars>>

NextCommunity ==
    \/ AddEdgeRelation
    \/ graph = None /\ EnsureNode
    \/ Build
    \/ LabelPropagation

SpecCommunity == Init /\ [][NextCommunity]_vars

---------------------------------------------------------------------------
(* SpecPath: shortest_path, src/graph/analytics.rs *)

RECURSIVE gcd(_, _)
gcd(m, n) == IF n = 0 THEN m ELSE gcd(n, m % n)

RECURSIVE lcm_of(_)
lcm_of(numbers) ==
    IF numbers = {} THEN 1
    ELSE LET n == CHOOSE x \in numbers : TRUE
             rest == lcm_of(numbers \ {n})
         IN  (n \div gcd(n, rest)) * rest

MaxPathNodes == 3

PathLabels == <<<<"a">>, <<"b">>, <<"c">>, <<"d">>, <<"e">>>>

\* The graphs of MaxPathNodes nodes in which each pair of nodes has no edge
\* or an edge of weight 2 or 4, in either direction.
WeightedGraphs ==
    LET pairs == {p \in (1..MaxPathNodes) \X (1..MaxPathNodes) : p[1] < p[2]}
    IN  {DiGraph(SubSeq(PathLabels, 1, MaxPathNodes),
                 {IF weights[p] = 2 THEN Edge(p[2], p[1], 2)
                  ELSE Edge(p[1], p[2], weights[p]) :
                      p \in {x \in pairs : weights[x] # 0}}) :
            weights \in [pairs -> {0, 2, 4}]}

\* a-b = 4, b-c = 4, a-c = 2: the two paths from a to c both cost 1/2.
Triangle ==
    DiGraph(SubSeq(PathLabels, 1, 3),
            {Edge(1, 2, 4), Edge(2, 3, 4), Edge(3, 1, 2)})

\* From a to e, a-b-e costs 1/4 + 1/4 and a-c-d-e costs 1/12 + 1/12 + 1/3.
Detour ==
    DiGraph(PathLabels,
            {Edge(1, 2, 4), Edge(2, 5, 4),
             Edge(1, 3, 12), Edge(3, 4, 12), Edge(4, 5, 3)})

\* From a to c, a-b-c costs 1/73 + 1/460, which is 1/2115540 less than the
\* cost 1/63 of a-c.
NearTie ==
    DiGraph(SubSeq(PathLabels, 1, 3),
            {Edge(1, 2, 73), Edge(2, 3, 460), Edge(1, 3, 63)})

PathGraphInputs == WeightedGraphs \cup {Triangle, Detour, NearTie}

QueryLabelInputs ==
    {<<"A">>, <<"a">>, <<"b">>, <<"c">>, <<"C">>, <<"e">>, <<"z">>}

\* Costs are f64 in the code.  The model counts a cost in units of
\* 1 / COST_SCALE, the least unit in which 1 / weight is a whole number for
\* every weight of the graphs above, so that sums and comparisons of costs
\* are exact.
COST_SCALE ==
    lcm_of(UNION {{edge.weight : edge \in g.edges} : g \in PathGraphInputs})

\* 1.0 / weight.max(0.001), for the weights of the model, which are 1 or more
edge_cost(weight) == COST_SCALE \div weight

abs(x) == IF x < 0 THEN -x ELSE x

\* diff < 1e-6, for a difference counted in units of 1 / COST_SCALE
within_tolerance(diff) == diff <= (COST_SCALE - 1) \div 1000000

\* node_indices().find(|&ni| graph[ni].to_lowercase() == label_lower)
find_node(g, label_lower) ==
    LET found == {ni \in 1..Len(g.nodes) :
                     to_lowercase(g.nodes[ni]) = label_lower}
    IN  IF found = {} THEN None
        ELSE Some(CHOOSE ni \in found : \A other_ni \in found : ni <= other_ni)

\* The scores after the edges of the popped node were followed.
relax(g, scores, visited, node) ==
    LET nexts == neighbors(g, node) \ visited
        next_score(n) ==
            scores[node] + edge_cost(undirected_weight(g, node, n))
    IN  [n \in DOMAIN scores \cup nexts |->
            IF n \in nexts /\ (n \notin DOMAIN scores
                               \/ next_score(n) < scores[n])
            THEN next_score(n)
            ELSE scores[n]]

\* petgraph's dijkstra with a goal: the node of least score that was not
\* visited is popped, any of them when several have the least score; the
\* search ends when the goal is popped or no node is left, and returns the
\* scores it holds then.  The set of the maps it can return.
RECURSIVE dijkstra(_, _, _, _)
dijkstra(g, scores, visited, goal) ==
    LET frontier == DOMAIN scores \ visited
        least == {n \in frontier : \A m \in frontier : scores[n] <= scores[m]}
    IN  IF frontier = {} THEN {scores}
        ELSE UNION {IF node = goal THEN {scores}
                    ELSE dijkstra(g, relax(g, scores, visited, node),
                                  visited \cup {node}, goal) :
                        node \in least}

\* Mutant of preferred: the neighbour of greater cost replaces best_prev
preferred_greater(neighbor_cost, best_cost) == neighbor_cost > best_cost

\* neighbor_cost < best_prev.unwrap().1
preferred(neighbor_cost, best_cost) == neighbor_cost < best_cost

\* The loop of reconstruct_path_undirected with `remaining` iterations left;
\* path holds the nodes from current to the target.  Among the neighbours
\* that no other is preferred to, the first in edge order is taken: any.
RECURSIVE reconstruct_from(_, _, _, _, _, _)
reconstruct_from(g, from, costs, current, path, remaining) ==
    IF remaining = 0 THEN {None}
    ELSE IF current = from THEN {Some(path)}
    ELSE IF current \notin DOMAIN costs THEN {None}
    ELSE
    LET candidates ==
            {n \in neighbors(g, current) \cap DOMAIN costs :
                within_tolerance(
                    abs(costs[n]
                        + edge_cost(undirected_weight(g, current, n))
                        - costs[current]))}
        best_prev == {n \in candidates :
                         \A m \in candidates :
                             ~preferred(costs[m], costs[n])}
    IN  IF best_prev = {} THEN {None}
        ELSE UNION {reconstruct_from(g, from, costs, prev, <<prev>> \o path,
                                     remaining - 1) : prev \in best_prev}

reconstruct_path_undirected(g, from, to, costs) ==
    IF from = to THEN {Some(<<from>>)}
    ELSE reconstruct_from(g, from, costs, to, <<to>>, Len(g.nodes))

PathFound(cost, labels) == [cost |-> cost, path |-> labels]

\* The values shortest_path can return: None or Some((cost, labels)).
shortest_path(g, from_label, to_label) ==
    LET from_label_lower == to_lowercase(from_label)
        to_label_lower == to_lowercase(to_label)
        from_idx == find_node(g, from_label_lower)
        to_idx == find_node(g, to_label_lower)
        labels(path) == [k \in 1..Len(path) |-> g.nodes[path[k]]]
        described(costs) ==
            IF to_idx[1] \notin DOMAIN costs THEN {None}
            ELSE {IF path = None THEN None
                  ELSE Some(PathFound(costs[to_idx[1]], labels(path[1]))) :
                      path \in reconstruct_path_undirected(
                                   g, from_idx[1], to_idx[1], costs)}
    IN  IF from_label_lower = to_label_lower
        THEN IF from_idx = None THEN {None}
             ELSE {Some(PathFound(0, <<g.nodes[from_idx[1]]>>))}
        ELSE IF from_idx = None \/ to_idx = None THEN {None}
        ELSE UNION {described(costs) :
                       costs \in dijkstra(g, [n \in {from_idx[1]} |-> 0],
                                          {}, to_idx[1])}

Query(from_label, to_label) == [from |-> from_label, to |-> to_label]

LoadGraph ==
    /\ graph = None
    /\ \E g \in PathGraphInputs : graph' = Some(g)
    /\ UNCHANGED <<communities, query, path_result, parseVars, builderVars,
                   orderVars, batchVars, adaptiveVars, moreVars>>

AskPath ==
    /\ graph # None
    /\ query = None
    /\ \E from_label \in QueryLabelInputs, to_label \in QueryLabelInputs :
           query' = Some(Query(from_label, to_label))
    /\ UNCHANGED <<graph, communities, path_result, parseVars, builderVars,
                   orderVars, batchVars, adaptiveVars, moreVars>>

ShortestPath ==
    /\ query # None
    /\ path_result = None
    /\ \E returned \in shortest_path(graph[1], query[1].from, query[1].to) :
           path_result' = Some(returned)
    /\ UNCHANGED <<graph, communities, query, parseVars, builderVars,
                   orderVars, batchVars, adaptiveVars, moreVars>>

NextPath ==
    \/ LoadGraph
    \/ AskPath
    \/ ShortestPath

SpecPath == Init /\ [][NextPath]_vars

---------------------------------------------------------------------------
(* SpecRank: pagerank, src/graph/analytics.rs *)

\* Scores are f64 in the code.  The model counts a score in units of
\* 1 / SCORE_SCALE and rounds every quotient down to a whole unit, so the
\* rounding of a division costs less than one unit.
SCORE_SCALE == 6 * 120 * 120 * 120

DAMPING_PERCENT == 85

RANK_ITERATIONS == 30

\* The graphs of one to three nodes with any set of edges, loops included.
RankGraphInputs ==
    UNION {{DiGraph(SubSeq(PathLabels, 1, n),
                    {Edge(pair[1], pair[2], 4) : pair \in pairs}) :
               pairs \in SUBSET ((1..n) \X (1..n))} : n \in 1..3}

\* graph.edges(ni): the edges that leave the node
out_edges(g, ni) == {edge \in g.edges : edge.source = ni}

\* 1.0 / n_f
uniform_score(n) == SCORE_SCALE \div n

\* (1.0 - damping) / n_f
base_score(n) == (SCORE_SCALE * (100 - DAMPING_PERCENT)) \div (100 * n)

\* Mutant of dangling_share: a node without outgoing edges gives nothing
dangling_share_dropped(score, n) == 0

\* scores[&ni] * damping / n_f
dangling_share(score, n) == (score * DAMPING_PERCENT) \div (100 * n)

\* scores[&ni] * damping / out_degree as f64
edge_share(score, out_degree) ==
    (score * DAMPING_PERCENT) \div (100 * out_degree)

\* What the node ni adds to new_scores[nj] in one iteration.
share_from(g, node_scores, ni, nj) ==
    LET out_degree == Cardinality(out_edges(g, ni))
    IN  IF out_degree = 0
        THEN dangling_share(node_scores[ni], Len(g.nodes))
        ELSE IF \E edge \in out_edges(g, ni) : edge.target = nj
        THEN edge_share(node_scores[ni], out_degree)
        ELSE 0

\* One turn of `for _ in 0..iterations`
power_iteration(g, node_scores) ==
    LET n == Len(g.nodes)
    IN  [nj \in 1..n |->
            base_score(n)
            + sum_over([ni \in 1..n |-> share_from(g, node_scores, ni, nj)],
                       1..n)]

LoadRankGraph ==
    /\ graph = None
    /\ \E g \in RankGraphInputs : graph' = Some(g)
    /\ UNCHANGED <<communities, query, path_result, parseVars, moreVars,
                   builderVars, orderVars, batchVars, adaptiveVars>>

\* The entry of pagerank: every node gets 1 / n
StartPagerank ==
    /\ graph # None
    /\ rank_scores = None
    /\ rank_scores' =
           Some([ni \in 1..Len(graph[1].nodes) |->
                    uniform_score(Len(graph[1].nodes))])
    /\ rank_iterations' = 0
    /\ UNCHANGED <<parseVars, graphVars, chunkerVars, selectorVars,
                   storeVars, builderVars, orderVars, batchVars,
                   adaptiveVars>>

PowerIteration ==
    /\ rank_scores # None
    /\ rank_iterations < RANK_ITERATIONS
    /\ rank_scores' = Some(power_iteration(graph[1], rank_scores[1]))
    /\ rank_iterations' = rank_iterations + 1
    /\ UNCHANGED <<parseVars, graphVars, chunkerVars, selectorVars,
                   storeVars, builderVars, orderVars, batchVars,
                   adaptiveVars>>

NextRank ==
    \/ LoadRankGraph
    \/ StartPagerank
    \/ PowerIteration

SpecRank == Init /\ [][NextRank]_vars

---------------------------------------------------------------------------
(* SpecContext: ModelContextLimits::get_context_size,
   src/parser/adaptive_chunker.rs *)

\* The arms of the match in get_context_size, in the order of the code:
\* the patterns an arm looks for and the context size it returns.
ContextArms ==
    <<[patterns |-> {<<"l", "l", "a", "m", "a", "3", ".", "2">>,
                     <<"l", "l", "a", "m", "a", "-", "3", ".", "2">>},
       size |-> 8192],
      [patterns |-> {<<"p", "h", "i", "3", ":", "m", "i", "n", "i">>,
                     <<"p", "h", "i", "-", "3", "-", "m", "i", "n", "i">>},
       size |-> 4096],
      [patterns |-> {<<"m", "i", "s", "t", "r", "a", "l">>},
       size |-> 32768],
      [patterns |-> {<<"q", "w", "e", "n", "2", ".", "5", ":", "3", "b">>},
       size |-> 8192],
      [patterns |-> {<<"q", "w", "e", "n", "2", ".", "5", ":", "7", "b">>},
       size |-> 32768],
      [patterns |-> {<<"g", "e", "m", "m", "a", "2", ":", "2", "b">>},
       size |-> 4096],
      [patterns |-> {<<"g", "e", "m", "m", "a", "2", ":", "9", "b">>},
       size |-> 8192],
      [patterns |-> {<<"l", "l", "a", "m", "a", "3", ".", "3">>,
                     <<"l", "l", "a", "m", "a", "-", "3", ".", "3">>},
       size |-> 128000],
      [patterns |-> {<<"q", "w", "e", "n", "2", ".", "5", ":", "7", "2", "b">>},
       size |-> 32768],
      [patterns |-> {<<"c", "l", "a", "u", "d", "e", "-", "3", "-", "o", "p", "u", "s">>},
       size |-> 200000],
      [patterns |-> {<<"c", "l", "a", "u", "d", "e", "-", "3", "-", "s", "o", "n", "n", "e", "t">>},
       size |-> 200000],
      [patterns |-> {<<"c", "l", "a", "u", "d", "e", "-", "3", "-", "h", "a", "i", "k", "u">>},
       size |-> 200000],
      [patterns |-> {<<"g", "p", "t", "-", "4">>},
       size |-> 8192],
      [patterns |-> {<<"g", "p", "t", "-", "4", "o">>},
       size |-> 128000],
      [patterns |-> {<<"g", "p", "t", "-", "3", ".", "5">>},
       size |-> 16385],
      [patterns |-> {<<"g", "e", "m", "i", "n", "i">>},
       size |-> 1048576]>>

\* `_ => 4096`
DEFAULT_CONTEXT == 4096

arm_matches(arm, m) == \E pattern \in arm.patterns : contains(m, pattern)

\* A match takes the first arm whose guard holds.
get_context_size(name) ==
    LET model_lower == to_lowercase(name)
        matching == {i \in DOMAIN ContextArms :
                        arm_matches(ContextArms[i], model_lower)}
    IN  IF matching = {}
        THEN DEFAULT_CONTEXT
        ELSE ContextArms[CHOOSE i \in matching :
                            \A j \in matching : i <= j].size

\* The names a model is asked for by: each pattern of the table, names
\* that match none, and capital letters, each alone, after a provider
\* prefix and before a version tag.
ModelCores ==
    UNION {ContextArms[i].patterns : i \in DOMAIN ContextArms}
    \cup {<<"G", "P", "T", "-", "4", "o">>,
          <<"G", "P", "T", "-", "4">>,
          <<"g", "p", "t", "-", "4", "o", "-", "m", "i", "n", "i">>,
          <<"g", "p", "t", "-", "4", "-", "t", "u", "r", "b", "o">>,
          <<"u", "n", "k", "n", "o", "w", "n">>,
          <<"g", "p", "t", "-", "5">>,
          <<"l", "l", "a", "m", "a", "3">>,
          <<"G", "e", "m", "i", "n", "i">>}

ModelPrefixes == {<<>>, <<"x", "/">>}

ModelSuffixes == {<<>>, <<":", "b">>}

ModelNameInputs ==
    {prefix \o core \o suffix :
        prefix \in ModelPrefixes, core \in ModelCores,
        suffix \in ModelSuffixes}

ChooseModel ==
    /\ model = None
    /\ \E name \in ModelNameInputs : model' = Some(name)
    /\ UNCHANGED <<context_size, chunker, adaptive_chunker, input_text,
                   text_chunks, adaptive_chunks,
                   parseVars, graphVars, rankVars, selectorVars, storeVars,
                   builderVars, orderVars, batchVars, adaptiveVars>>

GetContextSize ==
    /\ model # None
    /\ context_size = None
    /\ context_size' = Some(get_context_size(model[1]))
    /\ UNCHANGED <<model, chunker, adaptive_chunker, input_text,
                   text_chunks, adaptive_chunks,
                   parseVars, graphVars, rankVars, selectorVars, storeVars,
                   builderVars, orderVars, batchVars, adaptiveVars>>

NextContext ==
    \/ ChooseModel
    \/ GetContextSize

SpecContext == Init /\ [][NextContext]_vars

---------------------------------------------------------------------------
(* SpecChunk: TextChunker, src/parser/chunker.rs, and AdaptiveChunker,
   src/parser/adaptive_chunker.rs *)

\* The texts of the model are ASCII: a character is one byte, so the byte
\* length of a string is its number of characters.

\* `separators` of both chunkers
Separators ==
    <<<<"\n", "\n">>, <<"\n">>, <<".", " ">>, <<"!", " ">>, <<"?", " ">>,
      <<";", " ">>, <<",", " ">>, <<" ">>, <<>>>>

\* Where the pattern first starts in s, counted from 0; Len(s) if nowhere.
find_str(s, pattern) ==
    LET starts == {i \in 0..(Len(s) - Len(pattern)) :
                      SubSeq(s, i + 1, i + Len(pattern)) = pattern}
    IN  IF starts = {}
        THEN Len(s)
        ELSE CHOOSE i \in starts : \A j \in starts : i <= j

\* text.split(separator) for a separator that is not empty
RECURSIVE str_split(_, _)
str_split(s, separator) ==
    LET at == find_str(s, separator)
    IN  IF at = Len(s)
        THEN <<s>>
        ELSE <<SubSeq(s, 1, at)>>
             \o str_split(SubSeq(s, at + Len(separator) + 1, Len(s)),
                          separator)

\* text.chars().map(|c| &text[..c.len_utf8()]): for each character of the
\* text, the first len_utf8 bytes of the text, which is its first character.
char_splits(s) == [i \in 1..Len(s) |-> SubSeq(s, 1, 1)]

splits_of(s, separator) ==
    IF separator = <<>> THEN char_splits(s) ELSE str_split(s, separator)

split_with_sep(splits, i, separator) ==
    IF i < Len(splits) /\ separator # <<>>
    THEN splits[i] \o separator
    ELSE splits[i]

\* text.split_whitespace()
RECURSIVE split_whitespace(_)
split_whitespace(s) ==
    LET rest == trim_start(s)
        stops == {i \in 1..Len(rest) : is_whitespace(rest[i])}
        stop == IF stops = {}
                THEN Len(rest) + 1
                ELSE CHOOSE i \in stops : \A j \in stops : i <= j
    IN  IF rest = <<>>
        THEN <<>>
        ELSE <<SubSeq(rest, 1, stop - 1)>>
             \o split_whitespace(SubSeq(rest, stop, Len(rest)))

\* words.join(" ")
RECURSIVE join(_)
join(words) ==
    IF words = <<>> THEN <<>>
    ELSE IF Len(words) = 1 THEN words[1]
    ELSE words[1] \o <<" ">> \o join(Tail(words))

min(a, b) == IF a <= b THEN a ELSE b

max(a, b) == IF a >= b THEN a ELSE b

\* The last `count` characters of s, fewer if s is shorter.
last_chars(s, count) == SubSeq(s, max(1, Len(s) - count + 1), Len(s))

TextChunker(chunk_size, chunk_overlap) ==
    [chunk_size |-> chunk_size, chunk_overlap |-> chunk_overlap]

\* TextChunker::split_by_chars, the loop from `start`
RECURSIVE chars_from(_, _, _, _)
chars_from(c, chars, start, list) ==
    IF start >= Len(chars)
    THEN list
    ELSE LET end == min(start + c.chunk_size, Len(chars))
             pushed == Append(list, trim(SubSeq(chars, start + 1, end)))
             next == IF c.chunk_overlap > 0
                     THEN max(end - c.chunk_overlap, 0)
                     ELSE end
         IN  IF next >= end THEN pushed
             ELSE chars_from(c, chars, next, pushed)

split_by_chars(c, s) == chars_from(c, s, 0, <<>>)

\* `.filter(|c| c.len() > 10)`
MIN_CHUNK_LEN == 10

keep_long(list) ==
    SelectSeq(list, LAMBDA chunk : Len(chunk) > MIN_CHUNK_LEN)

RECURSIVE text_recursive_split(_, _, _)
RECURSIVE text_loop(_, _, _, _, _, _)

\* The `for (i, split)` loop of TextChunker::recursive_split from the i-th
\* split on, and what follows the loop.
text_loop(c, splits, separator_idx, i, list, current_chunk) ==
    LET separator == Separators[separator_idx + 1]
    IN  IF i > Len(splits)
        THEN LET trimmed == trim(current_chunk)
             IN  IF trimmed = <<>>
                 THEN list
                 ELSE IF Len(trimmed) > c.chunk_size
                 THEN list
                      \o text_recursive_split(c, trimmed, separator_idx + 1)
                 ELSE Append(list, trimmed)
        ELSE LET piece == split_with_sep(splits, i, separator)
             IN  IF Len(current_chunk) + Len(piece) > c.chunk_size
                 THEN LET flushed ==
                              IF current_chunk = <<>>
                              THEN list
                              ELSE IF Len(current_chunk) > c.chunk_size
                              THEN list
                                   \o text_recursive_split(c, current_chunk,
                                                           separator_idx + 1)
                              ELSE Append(list, trim(current_chunk))
                          started ==
                              IF flushed # <<>> /\ c.chunk_overlap > 0
                              THEN last_chars(flushed[Len(flushed)],
                                              c.chunk_overlap) \o piece
                              ELSE piece
                      IN  text_loop(c, splits, separator_idx, i + 1,
                                    flushed, started)
                 ELSE text_loop(c, splits, separator_idx, i + 1, list,
                                current_chunk \o piece)

\* TextChunker::recursive_split
text_recursive_split(c, s, separator_idx) ==
    IF separator_idx >= Len(Separators)
    THEN split_by_chars(c, s)
    ELSE keep_long(text_loop(c,
                             splits_of(s, Separators[separator_idx + 1]),
                             separator_idx, 1, <<>>, <<>>))

\* TextChunker::split
text_split(c, s) ==
    LET trimmed == trim(s)
    IN  IF trimmed = <<>>
        THEN <<>>
        ELSE IF Len(trimmed) <= c.chunk_size
        THEN <<trimmed>>
        ELSE text_recursive_split(c, trimmed, 0)

\* estimate_tokens: (text.len() as f32 / 4.0).ceil()
estimate_tokens(s) == (Len(s) + 3) \div 4

AdaptiveChunker(target_tokens, overlap_tokens) ==
    [target_tokens |-> target_tokens, overlap_tokens |-> overlap_tokens]

\* split never gives a parent_id, so the model's Chunk has none.
Chunk(s, estimated_tokens, chunk_index) ==
    [text |-> s, estimated_tokens |-> estimated_tokens,
     chunk_index |-> chunk_index]

\* (self.overlap_tokens / 2).max(5).min(words.len())
overlap_count(c, words) == min(max(c.overlap_tokens \div 2, 5), Len(words))

\* AdaptiveChunker::get_overlap_text
get_overlap_text(c, s) ==
    LET words == split_whitespace(s)
    IN  join(SubSeq(words, Len(words) - overlap_count(c, words) + 1,
                    Len(words)))
        \o <<" ">>

\* (word.len() as f32 * 0.5) as usize + 1
word_tokens(word) == Len(word) \div 2 + 1

\* The `for word in words` loop of AdaptiveChunker::split_by_tokens from the
\* i-th word on, and what follows the loop.
RECURSIVE words_loop(_, _, _, _, _, _, _)
words_loop(c, words, i, list, current_words, current_tokens, idx) ==
    IF i > Len(words)
    THEN IF current_words = <<>>
         THEN list
         ELSE Append(list, Chunk(join(current_words), current_tokens, idx))
    ELSE IF current_tokens + word_tokens(words[i]) > c.target_tokens
    THEN LET kept ==
                 IF c.overlap_tokens > 0
                 THEN SubSeq(current_words,
                             Len(current_words)
                                 - overlap_count(c, current_words) + 1,
                             Len(current_words))
                 ELSE <<>>
             started == Append(kept, words[i])
             tokens == sum_over([k \in DOMAIN started |->
                                    word_tokens(started[k])],
                                DOMAIN started)
         IN  IF current_words = <<>>
             THEN words_loop(c, words, i + 1, list, started, tokens, idx)
             ELSE words_loop(c, words, i + 1,
                             Append(list,
                                    Chunk(join(current_words),
                                          estimate_tokens(join(current_words)),
                                          idx)),
                             started, tokens, idx + 1)
    ELSE words_loop(c, words, i + 1, list, Append(current_words, words[i]),
                    current_tokens + word_tokens(words[i]), idx)

split_by_tokens(c, s, chunk_index) ==
    words_loop(c, split_whitespace(s), 1, <<>>, <<>>, 0, chunk_index)

RECURSIVE adaptive_recursive_split(_, _, _, _)
RECURSIVE adaptive_loop(_, _, _, _, _, _, _, _)

\* The `for (i, split)` loop of AdaptiveChunker::recursive_split from the
\* i-th split on, and what follows the loop.
adaptive_loop(c, splits, separator_idx, i, list, current_chunk, current_tokens, idx) ==
    LET separator == Separators[separator_idx + 1]
    IN  IF i > Len(splits)
        THEN LET trimmed == trim(current_chunk)
             IN  IF trimmed = <<>>
                 THEN list
                 ELSE IF estimate_tokens(trimmed) > c.target_tokens
                 THEN list
                      \o adaptive_recursive_split(c, trimmed,
                                                  separator_idx + 1, idx)
                 ELSE Append(list,
                             Chunk(trimmed, estimate_tokens(trimmed), idx))
        ELSE LET piece == split_with_sep(splits, i, separator)
                 split_tokens == estimate_tokens(piece)
             IN  IF current_tokens + split_tokens > c.target_tokens
                 THEN LET too_big ==
                              estimate_tokens(current_chunk) > c.target_tokens
                          resplit ==
                              adaptive_recursive_split(c, current_chunk,
                                                       separator_idx + 1, idx)
                          flushed ==
                              IF current_chunk = <<>>
                              THEN list
                              ELSE IF too_big
                              THEN list \o resplit
                              ELSE Append(list,
                                          Chunk(trim(current_chunk),
                                                estimate_tokens(current_chunk),
                                                idx))
                          next_idx ==
                              IF current_chunk = <<>>
                              THEN idx
                              ELSE IF too_big
                              THEN idx
                              ELSE idx + 1
                          overlap_text ==
                              IF flushed # <<>> /\ c.overlap_tokens > 0
                              THEN get_overlap_text(
                                       c, flushed[Len(flushed)].text)
                              ELSE <<>>
                          started == overlap_text \o piece
                      IN  adaptive_loop(c, splits, separator_idx, i + 1,
                                        flushed, started,
                                        estimate_tokens(started), next_idx)
                 ELSE adaptive_loop(c, splits, separator_idx, i + 1, list,
                                    current_chunk \o piece,
                                    current_tokens + split_tokens, idx)

\* AdaptiveChunker::recursive_split
adaptive_recursive_split(c, s, separator_idx, chunk_index) ==
    IF separator_idx >= Len(Separators)
    THEN split_by_tokens(c, s, chunk_index)
    ELSE adaptive_loop(c, splits_of(s, Separators[separator_idx + 1]),
                       separator_idx, 1, <<>>, <<>>, 0, chunk_index)

\* AdaptiveChunker::split
adaptive_split(c, s) ==
    LET trimmed == trim(s)
    IN  IF trimmed = <<>>
        THEN <<>>
        ELSE IF estimate_tokens(trimmed) <= c.target_tokens
        THEN <<Chunk(trimmed, estimate_tokens(trimmed), 0)>>
        ELSE adaptive_recursive_split(c, trimmed, 0, 0)

MaxTextPieces == 4

\* What the texts are made of: a word that fits a chunk, one that does not,
\* a short word, and separators.
TextPieces ==
    {<<"a", "b", "c", "d", "e", "f", "g", "h", "i", "j", "k">>,
     <<"m", "n", "o", "p", "q", "r", "s", "t", "u", "v", "w", "x", "y">>,
     <<"y", "z">>, <<" ">>, <<".", " ">>, <<"\n">>}

ChunkTextInputs ==
    {concat(pieces) : pieces \in UNION {[1..n -> TextPieces] :
                                            n \in 0..MaxTextPieces}}

TextChunkerInputs ==
    {TextChunker(chunk_size, chunk_overlap) :
        chunk_size \in {12, 16}, chunk_overlap \in {0, 3}}

AdaptiveChunkerInputs ==
    {AdaptiveChunker(target_tokens, overlap_tokens) :
        target_tokens \in {3, 4}, overlap_tokens \in {0, 2}}

NewTextChunker ==
    /\ chunker = None
    /\ adaptive_chunker = None
    /\ \E c \in TextChunkerInputs : chunker' = Some(c)
    /\ UNCHANGED <<model, context_size, adaptive_chunker, input_text,
                   text_chunks, adaptive_chunks, parseVars, graphVars,
                   rankVars, selectorVars, storeVars, builderVars,
                   orderVars, batchVars, adaptiveVars>>

NewAdaptiveChunker ==
    /\ chunker = None
    /\ adaptive_chunker = None
    /\ \E c \in AdaptiveChunkerInputs : adaptive_chunker' = Some(c)
    /\ UNCHANGED <<model, context_size, chunker, input_text, text_chunks,
                   adaptive_chunks, parseVars, graphVars, rankVars,
                   selectorVars, storeVars, builderVars, orderVars,
                   batchVars, adaptiveVars>>

ReadText ==
    /\ chunker # None \/ adaptive_chunker # None
    /\ input_text = None
    /\ \E s \in ChunkTextInputs : input_text' = Some(s)
    /\ UNCHANGED <<model, context_size, chunker, adaptive_chunker,
                   text_chunks, adaptive_chunks, parseVars, graphVars,
                   rankVars, selectorVars, storeVars, builderVars,
                   orderVars, batchVars, adaptiveVars>>

SplitText ==
    /\ chunker # None
    /\ input_text # None
    /\ text_chunks = None
    /\ text_chunks' = Some(text_split(chunker[1], input_text[1]))
    /\ UNCHANGED <<model, context_size, chunker, adaptive_chunker,
                   input_text, adaptive_chunks, parseVars, graphVars,
                   rankVars, selectorVars, storeVars, builderVars,
                   orderVars, batchVars, adaptiveVars>>

SplitAdaptive ==
    /\ adaptive_chunker # None
    /\ input_text # None
    /\ adaptive_chunks = None
    /\ adaptive_chunks' =
           Some(adaptive_split(adaptive_chunker[1], input_text[1]))
    /\ UNCHANGED <<model, context_size, chunker, adaptive_chunker,
                   input_text, text_chunks, parseVars, graphVars, rankVars,
                   selectorVars, storeVars, builderVars, orderVars,
                   batchVars, adaptiveVars>>

NextChunk ==
    \/ NewTextChunker
    \/ NewAdaptiveChunker
    \/ ReadText
    \/ SplitText
    \/ SplitAdaptive

SpecChunk == Init /\ [][NextChunk]_vars

---------------------------------------------------------------------------
(* SpecSelect: DocumentSelector, src/llm/batch_processor.rs *)

\* str::ends_with
ends_with(s, suffix) ==
    /\ Len(suffix) <= Len(s)
    /\ SubSeq(s, Len(s) - Len(suffix) + 1, Len(s)) = suffix

\* Path::new(&source).parent(), "" when there is none.  The sources of the
\* model are relative paths without "." or ".." and without repeated or
\* trailing "/".
parent(source) ==
    LET slashes == {i \in 1..Len(source) : source[i] = "/"}
    IN  IF slashes = {}
        THEN <<>>
        ELSE SubSeq(source, 1,
                    (CHOOSE i \in slashes : \A j \in slashes : j <= i) - 1)

\* DocumentSelector::document_priority
document_priority(path) ==
    LET lower == to_lowercase(path)
    IN  (IF \/ contains(lower, <<"r", "e", "a", "d", "m", "e">>)
            \/ contains(lower, <<"s", "k", "i", "l", "l">>)
            \/ contains(lower, <<"t", "o", "c">>)
         THEN 100 ELSE 0)
        + (IF \/ contains(lower, <<"o", "v", "e", "r", "v", "i", "e", "w">>)
              \/ contains(lower, <<"g", "e", "t", "t", "i", "n", "g", "-", "s", "t", "a", "r", "t", "e", "d">>)
           THEN 50 ELSE 0)
        + (IF \/ contains(lower, <<"e", "x", "a", "m", "p", "l", "e">>)
              \/ contains(lower, <<"g", "u", "i", "d", "e">>)
           THEN 30 ELSE 0)
        - (IF \/ contains(lower, <<"g", "e", "n", "e", "r", "a", "t", "e", "d">>)
              \/ contains(lower, <<"a", "u", "t", "o">>)
           THEN 50 ELSE 0)
        + (IF ends_with(lower, <<".", "m", "d">>) THEN 10 ELSE 0)

\* `text.len() < 100`
MIN_TEXT_LEN == 100

\* DocumentSelector::should_skip
should_skip(source, text) ==
    LET lower == to_lowercase(source)
    IN  \/ contains(lower, <<"g", "e", "n", "e", "r", "a", "t", "e", "d">>)
        \/ contains(lower, <<"a", "u", "t", "o", "-", "g", "e", "n", "e", "r", "a", "t", "e", "d">>)
        \/ contains(lower, <<"b", "r", "o", "k", "e", "n", "-", "l", "i", "n", "k", "s">>)
        \/ contains(lower, <<"s", "o", "u", "r", "c", "e", "-", "r", "e", "f", "e", "r", "e", "n", "c", "e", "-", "m", "a", "p">>)
        \/ Len(text) < MIN_TEXT_LEN
        \/ ends_with(lower, <<".", "j", "s", "o", "n">>)

\* Mutant of sort_docs: the documents are taken in the order given
sort_docs_skipped(docs) == docs

\* sorted_docs.sort_by(...): a stable sort, higher score first
RECURSIVE sort_docs(_)
sort_docs(docs) ==
    IF docs = <<>>
    THEN <<>>
    ELSE LET front == sort_docs(SubSeq(docs, 1, Len(docs) - 1))
             doc == docs[Len(docs)]
             ahead == {i \in 0..Len(front) :
                          \A k \in 1..i :
                              document_priority(front[k][1])
                                  >= document_priority(doc[1])}
             at == CHOOSE i \in ahead : \A j \in ahead : j <= i
         IN  SubSeq(front, 1, at) \o <<doc>>
             \o SubSeq(front, at + 1, Len(front))

\* dir_counts.entry(dir).or_insert(0)
dir_count(list, dir) ==
    Cardinality({k \in DOMAIN list : parent(list[k][1]) = dir})

\* The `for (source, text) in sorted_docs` loop from the i-th document on
RECURSIVE select_from(_, _, _, _)
select_from(sorted_docs, cap, i, list) ==
    IF i > Len(sorted_docs)
    THEN list
    ELSE LET source == sorted_docs[i][1]
             text == sorted_docs[i][2]
         IN  IF should_skip(source, text)
             THEN select_from(sorted_docs, cap, i + 1, list)
             ELSE IF dir_count(list, parent(source)) >= cap
             THEN select_from(sorted_docs, cap, i + 1, list)
             ELSE select_from(sorted_docs, cap, i + 1,
                              Append(list, <<source, text>>))

\* DocumentSelector::select_representative_docs
select_representative_docs(docs, cap) ==
    select_from(sort_docs(docs), cap, 1, <<>>)

\* A text of the given length
text_of_len(n) == [i \in 1..n |-> "x"]

SourceInputs ==
    {<<"d", "/", "r", "e", "a", "d", "m", "e", ".", "m", "d">>,
     <<"d", "/", "g", "u", "i", "d", "e", ".", "m", "d">>,
     <<"d", "/", "n", "o", "t", "e", "s", ".", "m", "d">>,
     <<"d", "/", "A", "u", "t", "o", ".", "m", "d">>,
     <<"d", "/", "g", "e", "n", "e", "r", "a", "t", "e", "d", ".", "m", "d">>,
     <<"d", "/", "d", "a", "t", "a", ".", "j", "s", "o", "n">>,
     <<"e", "/", "t", "o", "c", ".", "m", "d">>,
     <<"e", "/", "n", "o", "t", "e", "s", ".", "m", "d">>,
     <<"o", "v", "e", "r", "v", "i", "e", "w">>}

\* Every source with a text of 100 bytes, and one with a text of 99.
SelectDocInputs ==
    {<<source, text_of_len(MIN_TEXT_LEN)>> : source \in SourceInputs}
    \cup {<<<<"e", "/", "g", "u", "i", "d", "e", ".", "m", "d">>, text_of_len(MIN_TEXT_LEN - 1)>>}

MaxSelectDocs == 4

\* The lists of up to MaxSelectDocs different documents
SelectDocLists ==
    {list \in UNION {[1..n -> SelectDocInputs] : n \in 0..MaxSelectDocs} :
        \A i, j \in DOMAIN list : i # j => list[i] # list[j]}

ReadDocs ==
    /\ all_docs = None
    /\ \E list \in SelectDocLists : all_docs' = Some(list)
    /\ \E cap \in {0, 1, 2} : max_per_dir' = cap
    /\ UNCHANGED <<selected, parseVars, graphVars, rankVars, chunkerVars,
                   storeVars, builderVars, orderVars, batchVars,
                   adaptiveVars>>

SelectRepresentativeDocs ==
    /\ all_docs # None
    /\ selected = None
    /\ selected' = Some(select_representative_docs(all_docs[1], max_per_dir))
    /\ UNCHANGED <<all_docs, max_per_dir, parseVars, graphVars, rankVars,
                   chunkerVars, storeVars, builderVars, orderVars,
                   batchVars, adaptiveVars>>

NextSelect ==
    \/ ReadDocs
    \/ SelectRepresentativeDocs

SpecSelect == Init /\ [][NextSelect]_vars

---------------------------------------------------------------------------
(* SpecBuild: the build command from the extracted relations on,
   src/cli/commands/build.rs *)

\* `builder.add_relations(vec![relation], "document")`
DOCUMENT == "document"

\* One turn of `for relation in relations_result`
AddDocumentRelation ==
    \E relation \in RelationInputs :
        /\ proximity_calls = 0
        /\ graph = None
        /\ builder' = add_relations(builder, <<relation>>, DOCUMENT)
        /\ phrases_recorded(builder') <= MaxRelations
        /\ UNCHANGED <<proximity_calls, orderVars, batchVars,
                       adaptiveVars, analysisVars>>

NextBuild ==
    \/ AddDocumentRelation
    \/ proximity_calls = 0 /\ graph = None /\ CalculateContextualProximity
    \/ proximity_calls = 1 /\ Build

SpecBuild == Init /\ [][NextBuild]_vars

---------------------------------------------------------------------------
(* SpecRebuild: path, stats and communities rebuild the graph from the
   store, src/cli/commands/path.rs, stats.rs and communities.rs *)

\* GraphEdge of the store, as fetch_graph returns it
StoredEdge(source, target, relation, weight) ==
    [source |-> source, target |-> target, relation |-> relation,
     weight |-> weight]

\* What fetch_graph returned: the labels of the nodes and the edges
Store(nodes, edges) == [nodes |-> nodes, edges |-> edges]

\* The chunk id the commands give to add_relations
NEO4J == "neo4j"

\* Mutant of readd: the stored weight is added in place of 4.0
readd_stored_weight(b, edge) ==
    LET relation == Relation(edge.source, None, edge.target, None,
                             edge.relation)
        key == edge_key(trim(to_lowercase(edge.source)),
                        trim(to_lowercase(edge.target)))
        added == add_relations(b, <<relation>>, NEO4J)
    IN  IF relation_skipped(relation) THEN added
        ELSE [added EXCEPT !.edges[key].weight = @ - 4 + edge.weight]

\* One turn of `for edge in &edges`
readd(b, edge) ==
    add_relations(b,
                  <<Relation(edge.source, None, edge.target, None,
                             edge.relation)>>,
                  NEO4J)

RECURSIVE readd_all(_, _)
readd_all(b, edges) ==
    IF edges = <<>> THEN b
    ELSE readd_all(readd(b, Head(edges)), Tail(edges))

\* `for node in &nodes { builder.ensure_node_public(&node.label) }`
RECURSIVE ensure_all(_, _)
ensure_all(b, labels) ==
    IF labels = <<>> THEN b
    ELSE ensure_all(ensure_node(b, Head(labels)), Tail(labels))

\* The builder of the commands before build()
rebuild(s) == ensure_all(readd_all(new_builder, s.edges), s.nodes)

MaxStoredEdges == 2

StoredNodes == <<<<"a">>, <<"b">>, <<"c">>>>

\* Stored edges between the three nodes, two of them between the same
\* nodes in the two directions, one with a capital letter, one a loop
StoredEndpoints ==
    {<<<<"a">>, <<"b">>>>, <<<<"b">>, <<"a">>>>, <<<<"b">>, <<"c">>>>,
     <<<<"A">>, <<"c">>>>, <<<<"a">>, <<"a">>>>}

StoredWeights == {1, 5}

StoreInputs ==
    {Store(StoredNodes, edges) :
        edges \in UNION {[1..n -> {StoredEdge(ends[1], ends[2], <<"r">>, w) :
                                      ends \in StoredEndpoints,
                                      w \in StoredWeights}] :
                            n \in 0..MaxStoredEdges}}

\* The store with the given weights on its edges
with_weights(s, weights) ==
    Store(s.nodes,
          [i \in DOMAIN s.edges |->
              StoredEdge(s.edges[i].source, s.edges[i].target,
                         s.edges[i].relation, weights[i])])

\* fetch_graph on two stores that differ in the weights of their edges
FetchGraph ==
    /\ store = None
    /\ \E s \in StoreInputs :
           /\ store' = Some(s)
           /\ \E weights \in [DOMAIN s.edges -> StoredWeights] :
                  reweighted' = Some(with_weights(s, weights))
    /\ UNCHANGED <<parseVars, graphVars, rankVars, chunkerVars,
                   selectorVars, builderVars, orderVars, batchVars,
                   adaptiveVars>>

\* The rebuild of a command on each of the two stores, and build() on the
\* first
Rebuild ==
    /\ store # None
    /\ graph = None
    /\ builder' = rebuild(store[1])
    /\ other' = rebuild(reweighted[1])
    /\ \E order \in node_orders(builder') :
           graph' = Some(build(builder', order))
    /\ UNCHANGED <<proximity_calls, calls, applied, applied_other,
                   communities, query, path_result, parseVars, moreVars,
                   batchVars, adaptiveVars>>

NextRebuild ==
    \/ FetchGraph
    \/ Rebuild
    \/ store # None /\ LabelPropagation

SpecRebuild == Init /\ [][NextRebuild]_vars

---------------------------------------------------------------------------
(* Properties of the builder, checked under Spec *)

canonical(name) == trim(to_lowercase(name))

chunks_of(b, node) == map_get_or(b.node_chunks, node, {})

shared_chunks(b, n1, n2) == chunks_of(b, n1) \cap chunks_of(b, n2)

occurrences(relations, phrase) ==
    Cardinality({i \in 1..Len(relations) : relations[i] = phrase})

is_prefix(s, t) == Len(s) <= Len(t) /\ SubSeq(t, 1, Len(s)) = s

relations_of(b, key) == map_get_or(b.edges, key, empty_edge_data).relations

\* C3: the first calculate_contextual_proximity call after add_relations
\* calls leaves an edge exactly for the pairs of distinct nodes that share a
\* chunk id, each of weight 4 * (explicit relations of the pair) + (chunk ids
\* the two nodes share), which is at least 1.
ProximityWeights ==
    [][(proximity_calls = 0 /\ proximity_calls' = 1) =>
        /\ DOMAIN builder'.edges =
              {edge_key(n1, n2) : <<n1, n2>> \in
                  {p \in builder'.node_indices \X builder'.node_indices :
                      p[1] # p[2] /\ shared_chunks(builder', p[1], p[2]) # {}}}
        /\ \A key \in DOMAIN builder'.edges :
              /\ builder'.edges[key].weight =
                    4 * Len(relations_of(builder, key))
                    + Cardinality(shared_chunks(builder', key[1], key[2]))
              /\ builder'.edges[key].weight >= 1]_vars

\* An explicit edge of weight 5 next to a proximity-only edge of weight 1
ProximityWeightsReached ==
    /\ proximity_calls = 1
    /\ \E k1, k2 \in DOMAIN builder.edges :
          /\ builder.edges[k1].weight = 5
          /\ builder.edges[k2].weight = 1
          /\ builder.edges[k2].relations = <<CONTEXTUAL_PROXIMITY>>

\* C4: every edge key is a pair of canonical names (a, b) with a < b, so
\* there is no self-loop and one edge per unordered pair; a relation (A, B)
\* followed by (B, A) on a builder that holds no edge leaves one edge of
\* weight 8.
CanonicalEdgeKeys ==
    /\ \A key \in DOMAIN builder.edges :
          /\ canonical(key[1]) = key[1]
          /\ canonical(key[2]) = key[2]
          /\ str_lt(key[1], key[2])
          /\ <<key[2], key[1]>> \notin DOMAIN builder.edges
    /\ builder.edges = <<>> =>
          \A r \in RelationInputs, c1 \in ChunkInputs, c2 \in ChunkInputs :
             ~ relation_skipped(r) =>
                LET reversed == Relation(r.node_2, None, r.node_1, None, r.edge)
                    after == add_relations(
                                 add_relations(builder, <<r>>, c1),
                                 <<reversed>>, c2)
                IN  /\ Cardinality(DOMAIN after.edges) = 1
                    /\ \A key \in DOMAIN after.edges :
                          after.edges[key].weight = 8

\* One edge of weight 8 that holds two explicit relations
CanonicalEdgeKeysReached ==
    /\ proximity_calls = 0
    /\ Cardinality(DOMAIN builder.edges) = 1
    /\ \A key \in DOMAIN builder.edges :
          /\ builder.edges[key].weight = 8
          /\ key = <<<<"a">>, <<"b">>>>

\* C5: no edge's relation list holds an empty phrase.
NoEmptyPhrase ==
    \A key \in DOMAIN builder.edges :
        \A i \in 1..Len(builder.edges[key].relations) :
            builder.edges[key].relations[i] # <<>>

\* C6: add_relations with a relation whose names are equal or empty after
\* lowercase and trim leaves the whole builder as it is.
SkippedRelationIsNoOp ==
    \A r \in RelationInputs, chunk_id \in ChunkInputs :
        (\/ canonical(r.node_1) = canonical(r.node_2)
         \/ canonical(r.node_1) = <<>>
         \/ canonical(r.node_2) = <<>>)
        => add_relations(builder, <<r>>, chunk_id) = builder

\* A builder that holds an edge and no entity type, on which a self-loop
\* that carries an entity type is applied
SkippedRelationReached ==
    /\ builder.edges # <<>>
    /\ builder.node_types = <<>>
    /\ \E r \in RelationInputs, chunk_id \in ChunkInputs :
          /\ r.node_1 # r.node_2
          /\ canonical(r.node_1) = canonical(r.node_2)
          /\ r.node_1_type # None
          /\ add_relations(builder, <<r>>, chunk_id) = builder

\* C7 as stated: "contextual proximity" occurs at most once in each edge's
\* relation list.
ProximityPhraseAtMostOnce ==
    \A key \in DOMAIN builder.edges :
        occurrences(builder.edges[key].relations, CONTEXTUAL_PROXIMITY) <= 1

\* C7 amended: no operation removes or replaces a recorded phrase;
\* calculate_contextual_proximity changes a relation list only by turning an
\* empty list into the one phrase "contextual proximity" (so it appends the
\* phrase at most once per edge, and never to an edge that holds a phrase);
\* no edge joins a node to itself.
ProximityPhraseOnlyOnEmpty ==
    /\ [](\A key \in DOMAIN builder.edges : key[1] # key[2])
    /\ [][/\ \A key \in DOMAIN builder.edges :
                /\ key \in DOMAIN builder'.edges
                /\ is_prefix(builder.edges[key].relations,
                             builder'.edges[key].relations)
          /\ proximity_calls' # proximity_calls =>
                \A key \in DOMAIN builder'.edges :
                   \/ builder'.edges[key].relations = relations_of(builder, key)
                   \/ /\ relations_of(builder, key) = <<>>
                      /\ builder'.edges[key].relations =
                            <<CONTEXTUAL_PROXIMITY>>]_vars

\* After a proximity pass: an edge that holds only the synthesized phrase
\* and an edge whose explicit phrase was left alone
ProximityPhraseReached ==
    /\ proximity_calls >= 1
    /\ \E k1, k2 \in DOMAIN builder.edges :
          /\ builder.edges[k1].relations = <<CONTEXTUAL_PROXIMITY>>
          /\ builder.edges[k1].weight = 1
          /\ builder.edges[k2].relations = <<<<"r">>>>
          /\ builder.edges[k2].weight = 5

---------------------------------------------------------------------------
(* Properties of two builders fed the same relations *)

phrases_of(b, key) ==
    {b.edges[key].relations[i] : i \in 1..Len(b.edges[key].relations)}

\* C1: the same relations, applied in any order and in any grouping into
\* calls, give the same edge keys and, for each edge, the same weight, the
\* same multiset of phrases and the same set of chunk ids.
SameGraphAnyPartition ==
    applied = applied_other =>
        /\ DOMAIN builder.edges = DOMAIN other.edges
        /\ \A key \in DOMAIN builder.edges :
              /\ builder.edges[key].weight = other.edges[key].weight
              /\ builder.edges[key].chunk_ids = other.edges[key].chunk_ids
              /\ \A phrase \in phrases_of(builder, key) \cup phrases_of(other, key) :
                    occurrences(builder.edges[key].relations, phrase) =
                    occurrences(other.edges[key].relations, phrase)

\* Both builders hold an edge with two phrases from two chunks, recorded in
\* opposite orders
SameGraphAnyPartitionReached ==
    /\ applied = all_items
    /\ applied_other = all_items
    /\ \E key \in DOMAIN builder.edges :
          /\ Len(builder.edges[key].relations) = 2
          /\ builder.edges[key].chunk_ids = {"c1", "c2"}
          /\ key \in DOMAIN other.edges
          /\ other.edges[key].relations # builder.edges[key].relations

\* C2: once every call and the closing proximity pass were applied to both
\* builders, get_edges and get_nodes (degree, entity_type) agree, whatever
\* the order of the calls was.
SameViewsAnyOrder ==
    (/\ applied = all_items \cup {proximity_item}
     /\ applied_other = all_items \cup {proximity_item})
    => /\ get_edges(builder) = get_edges(other)
       /\ get_nodes(builder) = get_nodes(other)

---------------------------------------------------------------------------
(* Properties of the batch processor, checked under SpecBatch *)

RECURSIVE returned_relations(_)
\* The relations returned by the successful calls of a log, in call order
returned_relations(log) ==
    IF log = <<>> THEN <<>>
    ELSE (IF Head(log).outcome.ok THEN Head(log).outcome.relations
          ELSE <<>>)
         \o returned_relations(Tail(log))

\* The relations process_documents holds at this point of the run
collected ==
    all_relations
    \o (IF pc \in {"batch", "batch_call", "fallback", "chunk_call", "record"}
        THEN doc_relations
        ELSE <<>>)

batch_failed(call) == ~call.single /\ ~call.outcome.ok

overflow_failed(call) ==
    batch_failed(call) /\ ContextOverflowOf[call.outcome.error]

same_batch(c1, c2) == c1.doc = c2.doc /\ c1.batch = c2.batch

\* Single-chunk calls the fallback of batch call i has issued: all of its
\* chunks, unless the fallback loop of that batch is still running
fallback_calls_due(i) ==
    IF pc \in {"fallback", "chunk_call"} /\ llm_calls[i].doc = doc_idx
       /\ llm_calls[i].batch = batch_idx
    THEN chunk_pos - 1
    ELSE Len(llm_calls[i].chunks)

\* C8: a batched call of k chunks that fails with a context-overflow error
\* is followed by exactly k single-chunk calls, one per chunk of the batch
\* in batch order, whether or not one of them fails, and the relations of
\* every successful call are kept.
OverflowFallsBackPerChunk ==
    /\ \A i \in 1..Len(llm_calls) :
          overflow_failed(llm_calls[i]) =>
              LET call == llm_calls[i]
                  due == fallback_calls_due(i)
              IN  /\ i + due <= Len(llm_calls)
                  /\ \A j \in 1..due :
                        /\ llm_calls[i + j].single
                        /\ same_batch(llm_calls[i + j], call)
                        /\ llm_calls[i + j].chunks = <<call.chunks[j]>>
                  /\ i + due < Len(llm_calls) =>
                        ~llm_calls[i + due + 1].single
    /\ collected = returned_relations(llm_calls)

\* A batch of two chunks overflowed, the call for its first chunk failed,
\* the call for its second chunk succeeded and its relation was returned
OverflowFallsBackPerChunkReached ==
    /\ pc = "done"
    /\ \E i \in 1..Len(llm_calls) :
          /\ overflow_failed(llm_calls[i])
          /\ Len(llm_calls[i].chunks) = 2
          /\ i + 2 <= Len(llm_calls)
          /\ ~llm_calls[i + 1].outcome.ok
          /\ llm_calls[i + 2].outcome.ok
          /\ \E r \in 1..Len(all_relations) :
                all_relations[r] = llm_calls[i + 2].outcome.relations[1]

\* C9: a batched call that fails with an error that is not a context
\* overflow is not retried chunk by chunk: no single-chunk call is issued
\* for its batch.
NoFallbackOnOtherError ==
    \A i \in 1..Len(llm_calls) :
        (batch_failed(llm_calls[i]) /\ ~overflow_failed(llm_calls[i])) =>
            \A j \in 1..Len(llm_calls) :
                ~(llm_calls[j].single
                  /\ same_batch(llm_calls[j], llm_calls[i]))

\* The source of the document has an entry of the given map whose hash
\* equals the hash of the document's text
recorded_in(hashes, document) ==
    /\ document.source \in DOMAIN hashes
    /\ hashes[document.source].hash = calculate_hash(document.text)

\* C10: process_documents skips a document recorded in the progress map
\* with an equal hash (no LLM call, no relation, progress untouched) and
\* chunks and processes any other document; a run whose documents are all
\* recorded in the progress file with equal hashes ends its loop with no
\* LLM call issued and no relation collected.
SkipsRecordedDocuments ==
    /\ [][(pc = "document" /\ doc_idx <= Len(documents)) =>
             IF recorded_in(processed_hashes, documents[doc_idx])
             THEN /\ doc_idx' = doc_idx + 1
                  /\ pc' = "document"
                  /\ llm_calls' = llm_calls
                  /\ all_relations' = all_relations
                  /\ processed_hashes' = processed_hashes
                  /\ progress_file' = progress_file
             ELSE /\ doc_idx' = doc_idx
                  /\ chunks' = split(documents[doc_idx].text)
                  /\ pc' \in {"batch", "record"}]_vars
    /\ [](( /\ pc = "document"
            /\ doc_idx > Len(documents)
            /\ processed_docs < SAVE_EVERY
            /\ progress_file # None
            /\ progress_file[1] # UNDECODABLE
            /\ \A i \in 1..Len(documents) :
                  recorded_in(progress_file[1], documents[i]))
          => /\ llm_calls = <<>>
             /\ all_relations = <<>>
             /\ processed_hashes = progress_file[1])

\* A second run over two documents that the first run recorded has ended
\* without a call and with an empty result
SkipsRecordedDocumentsReached ==
    /\ clock = 2
    /\ pc = "done"
    /\ Len(documents) = 2
    /\ documents[1].source # documents[2].source
    /\ \A i \in 1..Len(documents) :
          /\ recorded_in(processed_hashes, documents[i])
          /\ processed_hashes[documents[i].source].timestamp = 1
    /\ llm_calls = <<>>
    /\ all_relations = <<>>

\* The calls of the run made for document d
calls_of(d) == {i \in 1..Len(llm_calls) : llm_calls[i].doc = d}

\* C11: a document whose every LLM call failed (every batched call and
\* every single-chunk call) is not recorded in the progress map.
FailedDocumentNotRecorded ==
    [][(/\ pc = "record"
        /\ calls_of(doc_idx) # {}
        /\ \A i \in calls_of(doc_idx) : ~llm_calls[i].outcome.ok)
       => processed_hashes' = processed_hashes]_vars

\* C12: a run that finds a progress file it cannot decode goes on with an
\* empty progress map.
DamagedProgressIsIgnored ==
    [][(/\ clock' = clock + 1
        /\ progress_file # None
        /\ progress_file[1] = UNDECODABLE)
       => (pc' = "document" /\ processed_hashes' = <<>>)]_vars

---------------------------------------------------------------------------
(* Properties of the processors, checked under SpecProcessors and           *)
(* SpecAdaptive                                                             *)

\* extract_relations calls of the tasks of process awaiting their reply
calls_in_flight ==
    Cardinality({t \in 1..Len(tasks) : tasks[t].state = "calling"})

permits_held ==
    Cardinality({t \in 1..Len(tasks) : tasks[t].permit})

\* BatchProcessor has no semaphore field
batch_semaphore == None

OverflowRetriedThreeTimes ==
    \A t \in 1..Len(tasks) :
        (tasks[t].state = "done"
         /\ tasks[t].result.error = "context overflow")
        => tasks[t].calls = 1 + 3

---------------------------------------------------------------------------
(* Properties of the reply parser, checked under SpecParse *)

\* C15: parse_relations_json never fails and never panics, whatever the
\* response, text with characters outside ASCII included: it returns Ok,
\* with the empty list when no JSON array can be decoded.
ParseNeverFailsNorPanics ==
    parsed # None =>
        /\ ~parsed[1].panic
        /\ parsed[1].value.ok
        /\ (~extract_json_array(response[1]).panic
            /\ ~from_str(extract_json_array(response[1]).value).ok
            => parsed[1].value.relations = <<>>)

\* C16: extract_json_array is idempotent: given its own output it returns
\* that output, for responses with nested code fences and for responses
\* with no balanced bracket too.
ExtractIsIdempotent ==
    json_again # None => json_again[1] = json_str[1]

---------------------------------------------------------------------------
(* Properties of community detection, checked under SpecCommunity *)

community_ids == {communities[1][ni] : ni \in DOMAIN communities[1]}

\* C17: label_propagation gives every node of the graph a community, the
\* ids are exactly 0 .. k-1 for k communities, and they are numbered in
\* order of first appearance along node index order: an id is given only
\* after every smaller id was given, so the node of index 0 has community 0.
CommunityIdsContiguous ==
    communities # None =>
        /\ DOMAIN communities[1] = 1..Len(graph[1].nodes)
        /\ community_ids = 0..(Cardinality(community_ids) - 1)
        /\ \A ni \in DOMAIN communities[1] :
               \A id \in 0..(communities[1][ni] - 1) :
                   \E earlier \in 1..(ni - 1) : communities[1][earlier] = id

\* Reached: a graph of two communities or more whose propagated labels
\* are not contiguous before they are remapped.
CommunityIdsContiguousReached ==
    /\ communities # None
    /\ Cardinality(community_ids) >= 2
    /\ iterate(graph[1], [i \in 1..Len(graph[1].nodes) |-> i - 1],
               MAX_ITERATIONS) # communities[1]

\* C18: community detection is deterministic: for the same content of the
\* builder every run gives each node the same community id, whatever the
\* order in which build() meets the keys of the hash map.
CommunitiesIndependentOfOrder ==
    communities # None =>
        \A order \in node_orders(builder) :
            \A ni \in 1..Len(order) :
                label_propagation(build(builder, order), MAX_ITERATIONS)[ni]
                    = community_of(graph[1], communities[1], order[ni])

---------------------------------------------------------------------------
(* Properties of shortest_path, checked under SpecPath *)

least_of(numbers) == CHOOSE n \in numbers : \A m \in numbers : n <= m

\* The least cost of a walk of at most `hops` edges from a node to each node
\* that such a walk reaches.
RECURSIVE cheapest(_, _, _)
cheapest(g, from, hops) ==
    IF hops = 0 THEN [n \in {from} |-> 0]
    ELSE LET shorter == cheapest(g, from, hops - 1)
             reached == DOMAIN shorter
                        \cup UNION {neighbors(g, n) : n \in DOMAIN shorter}
             costs_to(n) ==
                 {shorter[m] + edge_cost(undirected_weight(g, m, n)) :
                     m \in neighbors(g, n) \cap DOMAIN shorter}
                 \cup (IF n \in DOMAIN shorter THEN {shorter[n]} ELSE {})
         IN  [n \in reached |-> least_of(costs_to(n))]

\* The least cost of a path from a node to each node joined to it.
distance(g, from) == cheapest(g, from, Len(g.nodes) - 1)

position(g, label) == CHOOSE ni \in 1..Len(g.nodes) : g.nodes[ni] = label

steps(path) == 2..Len(path)

\* The sum of the costs of the edges of a path given by its labels.
total_cost(g, path) ==
    sum_over([k \in steps(path) |->
                 edge_cost(undirected_weight(g, position(g, path[k - 1]),
                                             position(g, path[k])))],
             steps(path))

source_node == find_node(graph[1], to_lowercase(query[1].from))

target_node == find_node(graph[1], to_lowercase(query[1].to))

connected ==
    /\ source_node # None
    /\ target_node # None
    /\ target_node[1] \in DOMAIN distance(graph[1], source_node[1])

\* C19: for two different labels present in the graph and connected in its
\* undirected projection, shortest_path returns a path from the source to
\* the target over adjacent nodes whose total cost is the returned cost and
\* is the least cost of a path between the two; it returns None when a
\* label is absent or no path exists.
PathIsCheapest ==
    path_result # None =>
        LET g == graph[1]
            returned == path_result[1]
            path == returned[1].path
        IN  /\ ~connected => returned = None
            /\ (connected /\ query[1].from # query[1].to) =>
                   /\ returned # None
                   /\ path[1] = g.nodes[source_node[1]]
                   /\ path[Len(path)] = g.nodes[target_node[1]]
                   /\ \A k \in steps(path) :
                          position(g, path[k - 1])
                              \in neighbors(g, position(g, path[k]))
                   /\ total_cost(g, path) = returned[1].cost
                   /\ returned[1].cost
                          = distance(g, source_node[1])[target_node[1]]

\* The least number of edges of a path of least cost to the target.
fewest_hops ==
    least_of({hops \in 0..(Len(graph[1].nodes) - 1) :
        /\ target_node[1] \in DOMAIN cheapest(graph[1], source_node[1], hops)
        /\ cheapest(graph[1], source_node[1], hops)[target_node[1]]
               = distance(graph[1], source_node[1])[target_node[1]]})

\* C20 as stated: of several paths of the same least cost, shortest_path
\* returns one with the fewest hops.
FewestHopsOnTies ==
    (path_result # None /\ path_result[1] # None) =>
        Len(path_result[1][1].path) - 1 <= fewest_hops

\* C20: shortest_path builds the path backwards from the target and takes
\* at each step, of the neighbours whose cost plus the cost of the joining
\* edge is within 1e-6 of the cost of the current node, one of least cost
\* from the source; in the triangle a-b = 4, b-c = 4, a-c = 2 the query
\* from A to C returns the path [a, c] with cost 1/2.
PredecessorOfLeastCost ==
    (path_result # None /\ path_result[1] # None) =>
        LET g == graph[1]
            path == path_result[1][1].path
            costs == distance(g, source_node[1])
            on_path_to(n, current) ==
                /\ n \in neighbors(g, current) \cap DOMAIN costs
                /\ within_tolerance(
                       abs(costs[n]
                           + edge_cost(undirected_weight(g, current, n))
                           - costs[current]))
        IN  /\ \A k \in steps(path) :
                   LET prev == position(g, path[k - 1])
                       current == position(g, path[k])
                   IN  /\ on_path_to(prev, current)
                       /\ \A n \in 1..Len(g.nodes) :
                              on_path_to(n, current) => costs[prev] <= costs[n]
            /\ (g = Triangle /\ query[1] = Query(<<"A">>, <<"C">>)) =>
                   path_result[1][1]
                       = PathFound(COST_SCALE \div 2, <<<<"a">>, <<"c">>>>)

\* Reached: the query from A to C was answered for the triangle, in which
\* the paths a-c and a-b-c have the same cost.
PredecessorOfLeastCostReached ==
    /\ path_result # None
    /\ path_result[1] # None
    /\ graph[1] = Triangle
    /\ query[1] = Query(<<"A">>, <<"C">>)
    /\ total_cost(Triangle, <<<<"a">>, <<"b">>, <<"c">>>>)
           = total_cost(Triangle, <<<<"a">>, <<"c">>>>)
    /\ Len(path_result[1][1].path) = 2

---------------------------------------------------------------------------
(* Properties of pagerank, checked under SpecRank *)

total_score == sum_over(rank_scores[1], DOMAIN rank_scores[1])

\* The units that the rounding of the quotients can have cost after the
\* given number of iterations: in each, one for the base score of each node
\* and one for each score a node's share is added to.
rounding_allowance(iterations, n) == iterations * (n + n * n) + n

\* C21: pagerank conserves the total score: from the uniform vector, after
\* every power iteration with damping 0.85 the scores sum to 1 (up to the
\* rounding of the divisions), and after 30 iterations the sum is within
\* 0.01 of 1.
PagerankSumsToOne ==
    rank_scores # None =>
        LET n == Len(graph[1].nodes)
        IN  /\ total_score <= SCORE_SCALE
            /\ SCORE_SCALE - total_score
                   <= rounding_allowance(rank_iterations, n)
            /\ (SCORE_SCALE - total_score) * 100 <= SCORE_SCALE

\* Reached: 30 iterations over a graph with a node without outgoing edges
\* and a node with two.
PagerankSumsToOneReached ==
    /\ rank_scores # None
    /\ rank_iterations = RANK_ITERATIONS
    /\ \E ni \in DOMAIN rank_scores[1] : out_edges(graph[1], ni) = {}
    /\ \E ni \in DOMAIN rank_scores[1] :
           Cardinality(out_edges(graph[1], ni)) = 2

---------------------------------------------------------------------------
(* Properties of the model-context lookup, checked under SpecContext *)

GPT_4O == <<"g", "p", "t", "-", "4", "o">>

GPT_4 == <<"g", "p", "t", "-", "4">>

matches_none(m) ==
    \A i \in DOMAIN ContextArms : ~arm_matches(ContextArms[i], m)

\* C22: the lookup is by case-insensitive substring: a model name that
\* contains "gpt-4o" resolves to 128000, a name that contains "gpt-4" but
\* not "gpt-4o" to 8192, and a name that matches no pattern to 4096.
GptNamesResolve ==
    context_size # None =>
        LET m == to_lowercase(model[1])
        IN  /\ contains(m, GPT_4O) => context_size[1] = 128000
            /\ (contains(m, GPT_4) /\ ~contains(m, GPT_4O))
                   => context_size[1] = 8192
            /\ matches_none(m) => context_size[1] = 4096

---------------------------------------------------------------------------
(* Properties of the chunkers, checked under SpecChunk *)

words_of(s) == {split_whitespace(s)[i] : i \in DOMAIN split_whitespace(s)}

\* C23: chunking loses no content: each whitespace-delimited word of the
\* input occurs in at least one chunk returned by TextChunker.split, and
\* likewise in at least one returned by AdaptiveChunker.split.
NoContentLost ==
    /\ text_chunks # None =>
           \A word \in words_of(input_text[1]) :
               \E k \in DOMAIN text_chunks[1] :
                   contains(text_chunks[1][k], word)
    /\ adaptive_chunks # None =>
           \A word \in words_of(input_text[1]) :
               \E k \in DOMAIN adaptive_chunks[1] :
                   contains(adaptive_chunks[1][k].text, word)

\* C28: the chunks returned by AdaptiveChunker.split carry strictly
\* increasing chunk_index values in sequence order, so no two chunks of a
\* document share an index.
ChunkIndexIncreasing ==
    adaptive_chunks # None =>
        \A k \in 1..(Len(adaptive_chunks[1]) - 1) :
            adaptive_chunks[1][k].chunk_index
                < adaptive_chunks[1][k + 1].chunk_index

---------------------------------------------------------------------------
(* Properties of the document selector, checked under SpecSelect *)

members(list) == {list[k] : k \in DOMAIN list}

\* The documents that no skip rule matches and that were not admitted
capped_out ==
    {doc \in members(all_docs[1]) :
        /\ ~should_skip(doc[1], doc[2])
        /\ doc \notin members(selected[1])}

\* C24: the result of select_representative_docs never contains a document
\* that a skip rule matches, never more than max_per_dir documents of one
\* directory, and a document left out only because of the cap has a score
\* no higher than each admitted document of its directory.
SelectionRespectsPriority ==
    selected # None =>
        /\ \A doc \in members(selected[1]) : ~should_skip(doc[1], doc[2])
        /\ \A doc \in members(selected[1]) :
               dir_count(selected[1], parent(doc[1])) <= max_per_dir
        /\ \A doc \in capped_out :
               \A admitted \in members(selected[1]) :
                   parent(admitted[1]) = parent(doc[1])
                       => document_priority(doc[1])
                              <= document_priority(admitted[1])

\* Reached: a document is left out because of the cap although it comes
\* before an admitted document of its directory in all_docs, whose score
\* is higher.
SelectionRespectsPriorityReached ==
    /\ selected # None
    /\ \E doc \in capped_out :
           \E admitted \in members(selected[1]) :
               /\ parent(admitted[1]) = parent(doc[1])
               /\ document_priority(doc[1]) < document_priority(admitted[1])
               /\ \E i, j \in DOMAIN all_docs[1] :
                      /\ i < j
                      /\ all_docs[1][i] = doc
                      /\ all_docs[1][j] = admitted

---------------------------------------------------------------------------
(* Properties of the progress file, checked under SpecProgress *)

\* The map in the progress file, empty when there is no file
file_map == IF progress_file = None THEN <<>> ELSE progress_file[1]

\* The sources whose entry in memory is not in the file
missing_from_file ==
    {source \in DOMAIN processed_hashes :
        \/ source \notin DOMAIN file_map
        \/ file_map[source] # processed_hashes[source]}

\* C25: process_documents writes the progress map after every 10th newly
\* processed document and once more before it returns: between documents
\* at most 9 processed documents are missing from the file, and after a
\* successful return the file holds the progress map in memory.
ProgressSavedEveryTen ==
    /\ pc = "document" => Cardinality(missing_from_file) <= SAVE_EVERY - 1
    /\ pc = "done" => progress_file = Some(processed_hashes)

\* Reached: the 10th newly processed document of a run has been recorded
\* after a document was skipped, documents remain, and the file holds the
\* map in memory.
ProgressSavedEveryTenReached ==
    /\ pc = "document"
    /\ processed_docs = SAVE_EVERY
    /\ doc_idx - 1 > processed_docs
    /\ doc_idx <= Len(documents)
    /\ progress_file = Some(processed_hashes)

---------------------------------------------------------------------------
(* Properties of a cancelled run, checked under SpecCancel *)

\* C26: when process_documents is cancelled while documents are being
\* processed, no batch is started after the cancellation, and the progress
\* file holds the entry of every document completed so far.
CancelFlushesProgress ==
    /\ [](pc = "cancelled" => missing_from_file = {})
    /\ [][pc = "cancelled" => llm_calls' = llm_calls /\ pc' = pc]_vars

\* The part of C26 that holds: nothing is called after the cancellation.
NoBatchAfterCancel ==
    [][pc = "cancelled" => llm_calls' = llm_calls /\ pc' = pc]_vars

---------------------------------------------------------------------------
(* Connected components and label propagation, checked under
   SpecCommunity *)

\* The nodes that paths of `undirected` of at most `hops` edges join to the
\* nodes of `reached`.
RECURSIVE reachable(_, _, _)
reachable(g, reached, hops) ==
    IF hops = 0 THEN reached
    ELSE reachable(g,
                   reached \cup UNION {neighbors(g, ni) : ni \in reached},
                   hops - 1)

\* The connected component of ni in the undirected projection
component(g, ni) == reachable(g, {ni}, Len(g.nodes))

\* The labels of one iteration after each node from ni on has chosen.
RECURSIVE sweep_steps(_, _, _)
sweep_steps(g, labels, ni) ==
    IF ni > Len(g.nodes) THEN {labels}
    ELSE LET votes == vote_weights(g, labels, ni)
             chosen == IF DOMAIN votes = {} THEN labels
                       ELSE [labels EXCEPT ![ni] = best_label(votes)]
         IN  {labels} \cup sweep_steps(g, chosen, ni + 1)

\* The labels at every step of label propagation
RECURSIVE propagation_steps(_, _, _)
propagation_steps(g, labels, iterations) ==
    IF iterations = 0 THEN {labels}
    ELSE LET swept == sweep(g, labels, 1)
         IN  sweep_steps(g, labels, 1)
             \cup (IF swept = labels THEN {}
                   ELSE propagation_steps(g, swept, iterations - 1))

initial_labels(g) == [i \in 1..Len(g.nodes) |-> i - 1]

\* C27: communities never span connected components: at every step of
\* label propagation the label of a node is the initial label of a node of
\* its own connected component, so two nodes of different components never
\* get the same community id, and a node without neighbours is a community
\* of its own.
CommunitiesWithinComponents ==
    communities # None =>
        LET g == graph[1]
            nodes == 1..Len(g.nodes)
        IN  /\ \A labels \in propagation_steps(g, initial_labels(g),
                                               MAX_ITERATIONS) :
                   \A ni \in nodes :
                       \E j \in component(g, ni) :
                           labels[ni] = initial_labels(g)[j]
            /\ \A i, j \in nodes :
                   communities[1][i] = communities[1][j]
                       => j \in component(g, i)
            /\ \A i \in nodes :
                   neighbors(g, i) = {}
                       => \A j \in nodes \ {i} :
                              communities[1][j] # communities[1][i]

\* Reached: a graph of two components of two nodes each, or of a component
\* of three nodes and a node without neighbours, in which a node has taken
\* the label of another.
CommunitiesWithinComponentsReached ==
    /\ communities # None
    /\ Len(graph[1].nodes) = 4
    /\ \E i, j \in 1..4 :
           /\ j \notin component(graph[1], i)
           /\ \/ Cardinality(component(graph[1], i)) = 2
                 /\ Cardinality(component(graph[1], j)) = 2
              \/ Cardinality(component(graph[1], i)) = 3
    /\ \E i, j \in 1..4 : i # j /\ communities[1][i] = communities[1][j]

---------------------------------------------------------------------------
(* Properties of the build command, checked under SpecBuild *)

\* C29: the build command adds every relation under the chunk id
\* "document", so after calculate_contextual_proximity every two distinct
\* nodes are joined by an edge, in the builder and in the graph that
\* build() returns, and every edge carries exactly that one chunk id.
BuiltGraphIsComplete ==
    /\ proximity_calls >= 1 =>
           /\ \A node_1, node_2 \in builder.node_indices :
                  node_1 # node_2
                      => edge_key(node_1, node_2) \in DOMAIN builder.edges
           /\ \A key \in DOMAIN builder.edges :
                  builder.edges[key].chunk_ids = {DOCUMENT}
    /\ graph # None =>
           \A i, j \in 1..Len(graph[1].nodes) :
               i # j => \E edge \in graph[1].edges : joins(edge, i, j)

\* Reached: a graph of three nodes is built in which two nodes are joined
\* only by contextual proximity.
BuiltGraphIsCompleteReached ==
    /\ graph # None
    /\ Len(graph[1].nodes) = 3
    /\ \E key \in DOMAIN builder.edges :
           builder.edges[key].relations = <<CONTEXTUAL_PROXIMITY>>
    /\ \E key \in DOMAIN builder.edges :
           \E i \in DOMAIN builder.edges[key].relations :
               builder.edges[key].relations[i] # CONTEXTUAL_PROXIMITY

---------------------------------------------------------------------------
(* Properties of the rebuild from the store, checked under SpecRebuild *)

\* The stored edges that add_relations does not skip and whose endpoints
\* are those of the key, in either direction
stored_between(s, key) ==
    {i \in DOMAIN s.edges :
        LET node_1 == trim(to_lowercase(s.edges[i].source))
            node_2 == trim(to_lowercase(s.edges[i].target))
        IN  /\ node_1 # <<>> /\ node_2 # <<>> /\ node_1 # node_2
            /\ {node_1, node_2} = {key[1], key[2]}}

\* The graph that build() makes of the reweighted store's builder when the
\* keys come in the order they came in for `graph`
other_graph == build(other, graph[1].nodes)

=============================================================================
